---- MODULE Spec2Model ----
(***************************************************************************)
(* Model of the VocabTest quiz core: word selection and shuffling, the     *)
(* multiple-choice option builder, the quiz session hook persisted to      *)
(* localStorage, the test and result pages that drive it, and the          *)
(* Supabase-backed result/statistics store.                                *)
(***************************************************************************)
EXTENDS Integers, Sequences, FiniteSets, TLC

VARIABLES
    \* --- selection engine / distractor generator (pure functions) ---
    pool,        \* Word[] handed to selectRandomWords / createMultipleChoiceOptions
    count,       \* requested number of words
    difficulty,  \* difficulty tag of the last call of selectRandomWords
    op,          \* the function applied last ("none" before any)
    selected,    \* value returned by selectRandomWords
    target,      \* correctWord handed to createMultipleChoiceOptions
    options,     \* value returned by createMultipleChoiceOptions
    \* --- quiz session hook (useTestState over useLocalStorage) ---
    testState,    \* storedValue of the mounted hook: a TestState or NULL
    localStorage, \* the item stored under 'vocabtest-state' (<<>> when absent)
    now,          \* Date.now()
    call,         \* the operation performed last, with its arguments
    prevState,    \* testState as it was when that operation began
    \* --- the pages ---
    page,          \* the page shown: "home", "test" or "result"
    urlDifficulty, \* searchParams.get('difficulty') || 'all' of the page shown
    loading,       \* TestContent: loadWords has not finished
    words,         \* TestContent: the catalog once fetched
    showAnswer,    \* TestContent: the current question has been answered
    user,          \* useAuth().user: "none" or a user id
    saving,        \* ResultContent: a save is under way
    effectPending, \* ResultContent: a render happened whose save effect has not run yet
    \* --- saveTestResult in flight and the Supabase tables ---
    savePc,        \* where the running call of useTestResults stands ("idle" when none runs)
    saveArgs,      \* its arguments: testState, difficulty, endTime
    currentStats,  \* the user_stats row updateUserStats has read
    testResults,   \* the rows of test_results, oldest first
    userStats,     \* the user's row of user_stats, or NULL
    saveResult     \* what the last saveTestResult returned ("none" before it returns)

selVars == <<pool, count, difficulty, op, selected, target, options>>
hookVars == <<testState, localStorage, now, call, prevState>>
pageVars == <<page, urlDifficulty, loading, words, showAnswer, user, saving, effectPending>>
saveVars == <<savePc, saveArgs, currentStats, testResults, userStats, saveResult>>
vars == <<selVars, hookVars, pageVars, saveVars>>

----------------------------------------------------------------------------
(* Bounds of the model *)
MaxPool == 3     \* longest pool handed to the pure functions
MaxCount == 3    \* largest count handed to selectRandomWords
MaxWords == 2    \* longest word list handed to initializeTest
MaxQuestionIndex == 1  \* largest questionIndex handed to recordAnswer
MaxScore == 2    \* recordAnswer is not called any more once score reaches it
MaxTime == 1     \* the clock stops after this many steps of half a second
MaxResults == 2  \* no save is started once test_results holds this many rows

----------------------------------------------------------------------------
(* Words *)

Word(w, m, d) == [word |-> w, meaning |-> m, example |-> "ex", difficulty |-> d]

\* A small universe of catalog entries: two easy words, two hard words, no
\* medium word, and two different words (wa, wc) that share one meaning.
WordUniverse ==
    { Word("wa", "m1", "easy"), Word("wb", "m2", "easy"),
      Word("wc", "m1", "hard"), Word("wd", "m3", "hard") }

DifficultyTags == {"all", "easy", "medium", "hard"}

Range(s) == { s[i] : i \in 1..Len(s) }

Min(a, b) == IF a < b THEN a ELSE b

SeqsUpTo(S, n) == UNION { [1..k -> S] : k \in 0..n }

\* Number of positions of s holding x
Occurrences(s, x) == Cardinality({ i \in 1..Len(s) : s[i] = x })

Distinct(s) == \A i, j \in 1..Len(s) : i # j => s[i] # s[j]

----------------------------------------------------------------------------
(* Array helpers with JavaScript's 0-based conventions *)

\* Array.prototype.slice(start, end) for 0 <= start, 0 <= end
slice(s, start, end) == SubSeq(s, start + 1, Min(end, Len(s)))

\* a swap that forgets to write s[i] back into position j
swap_Overwrite(s, i, j) == [s EXCEPT ![i + 1] = s[j + 1]]

\* [s[i], s[j]] = [s[j], s[i]] on 0-based positions i, j
swap(s, i, j) == [s EXCEPT ![i + 1] = s[j + 1], ![j + 1] = s[i + 1]]

\* The values Math.floor(Math.random() * (i + 1)) can take at each step
\* i = n-1 .. 1 of one shuffle of an n-element array.
RandomChoices(n) == { js \in [1..(n - 1) -> 0..(n - 1)] : \A i \in 1..(n - 1) : js[i] <= i }

RECURSIVE shuffleFrom(_, _, _)
shuffleFrom(shuffled, i, js) ==
    IF i <= 0 THEN shuffled
    ELSE shuffleFrom(swap(shuffled, i, js[i]), i - 1, js)

\* shuffleArray(array) with the random draws js
shuffleArray(array, js) == shuffleFrom(array, Len(array) - 1, js)

----------------------------------------------------------------------------
(* Selection engine *)

\* words.filter(word => word.difficulty === difficulty)
filterByDifficulty(wordList, tag) == SelectSeq(wordList, LAMBDA w : w.difficulty = tag)

\* selectRandomWords without the fallback to all words
filteredWords_NoFallback(wordList, cnt, tag) ==
    IF tag # "all" THEN filterByDifficulty(wordList, tag) ELSE wordList

\* selectRandomWords without the difficulty filter
filteredWords_NoFilter(wordList, cnt, tag) == wordList

\* The array selectRandomWords shuffles: the filtered words, or all words
\* when the filter leaves fewer than cnt
filteredWords(wordList, cnt, tag) ==
    LET byTag == IF tag # "all" THEN filterByDifficulty(wordList, tag) ELSE wordList
    IN  IF Len(byTag) < cnt THEN wordList ELSE byTag

selectRandomWords(wordList, cnt, tag, js) ==
    slice(shuffleArray(filteredWords(wordList, cnt, tag), js), 0, cnt)

----------------------------------------------------------------------------
(* Distractor generator *)

\* every pool item is a candidate, the target's own entry included
wrongWords_NoExclude(correctWord, allWords) == allWords

\* allWords.filter(word => word.word !== correctWord.word)
wrongWords(correctWord, allWords) ==
    SelectSeq(allWords, LAMBDA w : w.word # correctWord.word)

DistractorCount == 3

generateWrongAnswers(correctWord, allWords, js) ==
    LET shuffledWrongWords == shuffleArray(wrongWords(correctWord, allWords), js)
        firstOnes == slice(shuffledWrongWords, 0, DistractorCount)
    IN  [i \in 1..Len(firstOnes) |-> firstOnes[i].meaning]

createMultipleChoiceOptions(correctWord, allWords, js1, js2) ==
    LET wrongAnswers == generateWrongAnswers(correctWord, allWords, js1)
        allOptions == <<correctWord.meaning>> \o wrongAnswers
    IN  shuffleArray(allOptions, js2)

----------------------------------------------------------------------------
(* JSON.stringify / JSON.parse on the values a TestState is made of.  The  *)
(* text is a sequence of tokens: punctuation, the literals true, false and *)
(* null, one token per decimal digit of a number, and a string as its      *)
(* content between two quote tokens.                                       *)

NULL == [isNull |-> TRUE]

Quote == "\""

Digits == <<"0", "1", "2", "3", "4", "5", "6", "7", "8", "9">>

IsDigit(tok) == \E d \in 1..10 : Digits[d] = tok

DigitValue(tok) == (CHOOSE d \in 1..10 : Digits[d] = tok) - 1

RECURSIVE stringifyNumber(_)
stringifyNumber(n) ==
    IF n < 10 THEN <<Digits[n + 1]>>
    ELSE stringifyNumber(n \div 10) \o <<Digits[(n % 10) + 1]>>

stringifyString(str) == <<Quote, str, Quote>>

stringifyBoolean(b) == IF b THEN <<"true">> ELSE <<"false">>

\* "key": in front of a member's value
member(key) == <<Quote, key, Quote, ":">>

RECURSIVE joinElements(_, _)
\* the texts in parts from position i on, comma separated
joinElements(parts, i) ==
    IF i > Len(parts) THEN <<>>
    ELSE (IF i > 1 THEN <<",">> ELSE <<>>) \o parts[i] \o joinElements(parts, i + 1)

stringifyWord(w) ==
    <<"{">> \o member("word") \o stringifyString(w.word)
    \o <<",">> \o member("meaning") \o stringifyString(w.meaning)
    \o <<",">> \o member("example") \o stringifyString(w.example)
    \o <<",">> \o member("difficulty") \o stringifyString(w.difficulty)
    \o <<"}">>

\* an answer serialized without its correct flag
stringifyAnswer_DropsCorrect(a) ==
    <<"{">> \o member("questionIndex") \o stringifyNumber(a.questionIndex)
    \o <<",">> \o member("selectedAnswer") \o stringifyString(a.selectedAnswer)
    \o <<"}">>

stringifyAnswer(a) ==
    <<"{">> \o member("questionIndex") \o stringifyNumber(a.questionIndex)
    \o <<",">> \o member("selectedAnswer") \o stringifyString(a.selectedAnswer)
    \o <<",">> \o member("correct") \o stringifyBoolean(a.correct)
    \o <<"}">>

stringifyWords(arr) ==
    <<"[">> \o joinElements([i \in 1..Len(arr) |-> stringifyWord(arr[i])], 1) \o <<"]">>

stringifyAnswers(arr) ==
    <<"[">> \o joinElements([i \in 1..Len(arr) |-> stringifyAnswer(arr[i])], 1) \o <<"]">>

\* JSON.stringify(valueToStore) for valueToStore: TestState | null
JSONstringify(value) ==
    IF value = NULL THEN <<"null">>
    ELSE <<"{">> \o member("currentQuestionIndex") \o stringifyNumber(value.currentQuestionIndex)
         \o <<",">> \o member("score") \o stringifyNumber(value.score)
         \o <<",">> \o member("selectedWords")
         \o stringifyWords(value.selectedWords)
         \o <<",">> \o member("answers")
         \o stringifyAnswers(value.answers)
         \o <<",">> \o member("startTime") \o stringifyNumber(value.startTime)
         \o <<"}">>

\* The parser: each operator takes the text and a position and returns the
\* value read there with the position that follows it.
Parsed(v, p) == [val |-> v, next |-> p]

RECURSIVE parseNumber(_, _, _)
parseNumber(text, pos, acc) ==
    IF pos <= Len(text) /\ IsDigit(text[pos])
    THEN parseNumber(text, pos + 1, acc * 10 + DigitValue(text[pos]))
    ELSE Parsed(acc, pos)

RECURSIVE parseValue(_, _)
RECURSIVE parseMembers(_, _, _)
RECURSIVE parseElements(_, _, _)

\* the members of an object from pos on, up to and including its "}"
parseMembers(text, pos, obj) ==
    IF text[pos] = "}" THEN Parsed(obj, pos + 1)
    ELSE IF text[pos] = "," THEN parseMembers(text, pos + 1, obj)
    ELSE LET key == text[pos + 1]
             v == parseValue(text, pos + 4)
         IN  parseMembers(text, v.next, (key :> v.val) @@ obj)

\* the elements of an array from pos on, up to and including its "]"
parseElements(text, pos, arr) ==
    IF text[pos] = "]" THEN Parsed(arr, pos + 1)
    ELSE IF text[pos] = "," THEN parseElements(text, pos + 1, arr)
    ELSE LET v == parseValue(text, pos)
         IN  parseElements(text, v.next, Append(arr, v.val))

parseValue(text, pos) ==
    IF text[pos] = "{" THEN parseMembers(text, pos + 1, <<>>)
    ELSE IF text[pos] = "[" THEN parseElements(text, pos + 1, <<>>)
    ELSE IF text[pos] = Quote THEN Parsed(text[pos + 1], pos + 3)
    ELSE IF text[pos] = "true" THEN Parsed(TRUE, pos + 1)
    ELSE IF text[pos] = "false" THEN Parsed(FALSE, pos + 1)
    ELSE IF text[pos] = "null" THEN Parsed(NULL, pos + 1)
    ELSE parseNumber(text, pos, 0)

JSONparse(text) == parseValue(text, 1).val

----------------------------------------------------------------------------
(* useLocalStorage<TestState | null>('vocabtest-state', null)              *)

\* the lazy initial state: the parsed item, or initialValue when
\* getItem returns null (or an empty string)
readStoredValue(item) == IF item # <<>> THEN JSONparse(item) ELSE NULL

\* setValue(value) with a value that is not a function
setValue(value) ==
    /\ testState' = value
    /\ localStorage' = JSONstringify(value)

\* removeValue forgetting window.localStorage.removeItem(key)
removeValue_KeepsItem ==
    /\ testState' = NULL
    /\ UNCHANGED localStorage

removeValue ==
    /\ testState' = NULL
    /\ localStorage' = <<>>

----------------------------------------------------------------------------
(* useTestState.  A handler runs in the render that follows the previous   *)
(* state change, so the testState it closes over is the current one.       *)

\* initializeTest setting the state without writing it to the store
initializeTest_NotPersisted(wordList) ==
    /\ testState' = [currentQuestionIndex |-> 0,
                     score |-> 0,
                     selectedWords |-> wordList,
                     answers |-> <<>>,
                     startTime |-> now]
    /\ UNCHANGED localStorage

initializeTest(wordList) ==
    setValue([currentQuestionIndex |-> 0,
              score |-> 0,
              selectedWords |-> wordList,
              answers |-> <<>>,
              startTime |-> now])

\* updateTestState spreading the session found in the store, when there is one
updateTestState_FromStore(updates) ==
    IF testState # NULL
    THEN LET base == IF localStorage # <<>> THEN readStoredValue(localStorage) ELSE testState
         IN  setValue([f \in DOMAIN base |->
                          IF f \in DOMAIN updates THEN updates[f] ELSE base[f]])
    ELSE UNCHANGED <<testState, localStorage>>

\* setTestState({ ...testState, ...updates }) when testState is set; updates
\* is a record holding some of the fields
updateTestState(updates) ==
    IF testState # NULL
    THEN setValue([f \in DOMAIN testState |->
                      IF f \in DOMAIN updates THEN updates[f] ELSE testState[f]])
    ELSE UNCHANGED <<testState, localStorage>>

\* updatedAnswers.findIndex(a => a.questionIndex === questionIndex), 0-based, -1 if none
findIndex(answers, questionIndex) ==
    LET hits == { i \in 1..Len(answers) : answers[i].questionIndex = questionIndex }
    IN  IF hits = {} THEN -1
        ELSE (CHOOSE i \in hits : \A k \in hits : i <= k) - 1

\* recordAnswer pushing the new answer without looking for an existing one
updatedAnswers_AlwaysPush(answers, newAnswer) == Append(answers, newAnswer)

\* the updatedAnswers array recordAnswer builds
updatedAnswers(answers, newAnswer) ==
    LET existingIndex == findIndex(answers, newAnswer.questionIndex)
    IN  IF existingIndex >= 0
        THEN [answers EXCEPT ![existingIndex + 1] = newAnswer]
        ELSE Append(answers, newAnswer)

\* recordAnswer moving on to the next question as well
recordAnswer_Advances(questionIndex, selectedAnswer, correct) ==
    IF testState # NULL
    THEN LET newAnswer == [questionIndex |-> questionIndex,
                           selectedAnswer |-> selectedAnswer,
                           correct |-> correct]
         IN  updateTestState(
                [answers |-> updatedAnswers(testState.answers, newAnswer),
                 score |-> IF correct THEN testState.score + 1 ELSE testState.score,
                 currentQuestionIndex |-> testState.currentQuestionIndex + 1])
    ELSE UNCHANGED <<testState, localStorage>>

recordAnswer(questionIndex, selectedAnswer, correct) ==
    IF testState # NULL
    THEN LET newAnswer == [questionIndex |-> questionIndex,
                           selectedAnswer |-> selectedAnswer,
                           correct |-> correct]
         IN  updateTestState(
                [answers |-> updatedAnswers(testState.answers, newAnswer),
                 score |-> IF correct THEN testState.score + 1 ELSE testState.score])
    ELSE UNCHANGED <<testState, localStorage>>

\* nextQuestion without the test for the last question
nextQuestion_NoBoundary ==
    IF testState # NULL
    THEN updateTestState([currentQuestionIndex |-> testState.currentQuestionIndex + 1])
    ELSE UNCHANGED <<testState, localStorage>>

\* nextQuestion leaving the session as it is
nextQuestion_Stays == UNCHANGED <<testState, localStorage>>

nextQuestion ==
    IF testState # NULL
       /\ testState.currentQuestionIndex < Len(testState.selectedWords) - 1
    THEN updateTestState([currentQuestionIndex |-> testState.currentQuestionIndex + 1])
    ELSE UNCHANGED <<testState, localStorage>>

resetTest == removeValue

----------------------------------------------------------------------------
(* Specifications of the pure functions: the inputs are drawn in Init and  *)
(* one action per function applies it with every possible sequence of      *)
(* random draws.                                                           *)

NoWord == Word("", "", "")

\* The value of the selection variables in a specification that does not use them
SelIdle ==
    /\ pool = <<>>
    /\ count = 0
    /\ difficulty = "all"
    /\ op = "none"
    /\ selected = <<>>
    /\ target = NoWord
    /\ options = <<>>

\* the last operation and its arguments (wordList: the list handed to initializeTest)
NoCall == [name |-> "none", questionIndex |-> -1, selectedAnswer |-> "", correct |-> FALSE,
           wordList |-> <<>>]

\* The value of the session variables in a specification that does not use them
HookIdle ==
    /\ testState = NULL
    /\ localStorage = <<>>
    /\ now = 0
    /\ call = NoCall
    /\ prevState = NULL

\* The value of the page and backend variables in a specification without pages
PageIdle ==
    /\ page = "none"
    /\ urlDifficulty = "all"
    /\ loading = FALSE
    /\ words = <<>>
    /\ showAnswer = FALSE
    /\ user = "none"
    /\ saving = FALSE
    /\ effectPending = FALSE

SaveIdle ==
    /\ savePc = "idle"
    /\ saveArgs = NULL
    /\ currentStats = NULL
    /\ testResults = <<>>
    /\ userStats = NULL
    /\ saveResult = "none"

InitSelect ==
    /\ pool \in SeqsUpTo(WordUniverse, MaxPool)
    /\ count \in 0..MaxCount
    /\ difficulty \in DifficultyTags
    /\ op = "none"
    /\ selected = <<>>
    /\ target = NoWord
    /\ options = <<>>
    /\ HookIdle
    /\ PageIdle
    /\ SaveIdle

SelectRandomWords ==
    /\ op = "none"
    /\ \E js \in RandomChoices(Len(filteredWords(pool, count, difficulty))) :
          selected' = selectRandomWords(pool, count, difficulty, js)
    /\ op' = "selectRandomWords"
    /\ UNCHANGED <<pool, count, difficulty, target, options>>
    /\ UNCHANGED <<hookVars, pageVars, saveVars>>

NextSelect == SelectRandomWords

SpecSelect == InitSelect /\ [][NextSelect]_vars

InitShuffle ==
    /\ pool \in SeqsUpTo(WordUniverse, MaxPool)
    /\ count = 0
    /\ difficulty = "all"
    /\ op = "none"
    /\ selected = <<>>
    /\ target = NoWord
    /\ options = <<>>
    /\ HookIdle
    /\ PageIdle
    /\ SaveIdle

\* shuffleArray(pool): it works on a copy, [...array], and returns it
ShuffleArray ==
    /\ op = "none"
    /\ \E js \in RandomChoices(Len(pool)) : selected' = shuffleArray(pool, js)
    /\ op' = "shuffleArray"
    /\ UNCHANGED <<pool, count, difficulty, target, options>>
    /\ UNCHANGED <<hookVars, pageVars, saveVars>>

NextShuffle == ShuffleArray

SpecShuffle == InitShuffle /\ [][NextShuffle]_vars

InitOptions ==
    /\ pool \in SeqsUpTo(WordUniverse, MaxPool)
    /\ target \in WordUniverse
    /\ count = 0
    /\ difficulty = "all"
    /\ op = "none"
    /\ selected = <<>>
    /\ options = <<>>
    /\ HookIdle
    /\ PageIdle
    /\ SaveIdle

CreateMultipleChoiceOptions ==
    /\ op = "none"
    /\ \E js1 \in RandomChoices(Len(wrongWords(target, pool))) :
       \E js2 \in RandomChoices(1 + Min(DistractorCount, Len(wrongWords(target, pool)))) :
          options' = createMultipleChoiceOptions(target, pool, js1, js2)
    /\ op' = "createMultipleChoiceOptions"
    /\ UNCHANGED <<pool, count, difficulty, selected, target>>
    /\ UNCHANGED <<hookVars, pageVars, saveVars>>

NextOptions == CreateMultipleChoiceOptions

SpecOptions == InitOptions /\ [][NextOptions]_vars

----------------------------------------------------------------------------
(* Specification of the session hook: a component that mounts the hook and *)
(* calls its operations in any order with any arguments, and the page      *)
(* reloads that remount it.                                                *)

\* the word lists handed to initializeTest
SessionWords == { Word("wa", "m1", "easy"), Word("wb", "m2", "easy") }

SessionWordLists == { ws \in SeqsUpTo(SessionWords, MaxWords) : Distinct(ws) }

\* the answers handed to recordAnswer: a right one and a wrong one
RecordedAnswers ==
    { [selectedAnswer |-> "m1", correct |-> TRUE],
      [selectedAnswer |-> "m2", correct |-> FALSE] }

Called(name) == [NoCall EXCEPT !.name = name]

InitHook ==
    /\ SelIdle
    /\ HookIdle
    /\ PageIdle
    /\ SaveIdle

InitializeTest ==
    /\ \E ws \in SessionWordLists :
          /\ initializeTest(ws)
          /\ call' = [Called("initializeTest") EXCEPT !.wordList = ws]
    /\ prevState' = testState
    /\ UNCHANGED <<now, selVars, pageVars, saveVars>>

RecordAnswer ==
    /\ testState # NULL => testState.score < MaxScore
    /\ \E questionIndex \in 0..MaxQuestionIndex, a \in RecordedAnswers :
          /\ recordAnswer(questionIndex, a.selectedAnswer, a.correct)
          /\ call' = [Called("recordAnswer") EXCEPT !.questionIndex = questionIndex,
                      !.selectedAnswer = a.selectedAnswer, !.correct = a.correct]
    /\ prevState' = testState
    /\ UNCHANGED <<now, selVars, pageVars, saveVars>>

NextQuestion ==
    /\ nextQuestion
    /\ call' = Called("nextQuestion")
    /\ prevState' = testState
    /\ UNCHANGED <<now, selVars, pageVars, saveVars>>

ResetTest ==
    /\ resetTest
    /\ call' = Called("resetTest")
    /\ prevState' = testState
    /\ UNCHANGED <<now, selVars, pageVars, saveVars>>

\* A page reload: the hook is mounted again and its state is read from the store
Reload ==
    /\ testState' = readStoredValue(localStorage)
    /\ call' = Called("reload")
    /\ prevState' = testState
    /\ UNCHANGED <<localStorage, now, selVars, pageVars, saveVars>>

\* Half a second passes (Date.now() counts milliseconds)
Tick ==
    /\ now < MaxTime * 500
    /\ now' = now + 500
    /\ UNCHANGED <<testState, localStorage, call, prevState, selVars, pageVars, saveVars>>

NextHook ==
    \/ InitializeTest
    \/ RecordAnswer
    \/ NextQuestion
    \/ ResetTest
    \/ Reload
    \/ Tick

SpecHook == InitHook /\ [][NextHook]_vars

----------------------------------------------------------------------------
(* Claims about the session hook (checked under SpecHook)                  *)

HasAnswerFor(state, questionIndex) ==
    \E i \in 1..Len(state.answers) : state.answers[i].questionIndex = questionIndex

\* C1: recordAnswer increases score by exactly 1 when the recorded answer is
\* correct and no answer was recorded for that index before, and leaves score
\* unchanged otherwise (so recording the same answer for the same index a
\* second time leaves score as the first call left it).
C1_ScoreOncePerIndex ==
    (call.name = "recordAnswer" /\ prevState # NULL) =>
        testState.score =
            IF call.correct /\ ~HasAnswerFor(prevState, call.questionIndex)
            THEN prevState.score + 1
            ELSE prevState.score

\* C2: the answers hold at most one entry per question index; recording an
\* answer for an index that has one replaces that entry by the latest answer
\* and keeps the number of entries, and recording one for a new index adds
\* one entry.
C2_OneAnswerPerIndex ==
    /\ testState # NULL =>
          \A i, j \in 1..Len(testState.answers) :
             testState.answers[i].questionIndex = testState.answers[j].questionIndex => i = j
    /\ (call.name = "recordAnswer" /\ prevState # NULL) =>
          /\ \E i \in 1..Len(testState.answers) :
                testState.answers[i] = [questionIndex |-> call.questionIndex,
                                        selectedAnswer |-> call.selectedAnswer,
                                        correct |-> call.correct]
          /\ Len(testState.answers) =
                IF HasAnswerFor(prevState, call.questionIndex)
                THEN Len(prevState.answers)
                ELSE Len(prevState.answers) + 1

\* an answer for index 0 was replaced by a different one
C2_Witness ==
    /\ call.name = "recordAnswer"
    /\ prevState # NULL
    /\ HasAnswerFor(prevState, call.questionIndex)
    /\ \E i \in 1..Len(prevState.answers) :
          /\ prevState.answers[i].questionIndex = call.questionIndex
          /\ prevState.answers[i].selectedAnswer # call.selectedAnswer
    /\ Len(testState.answers) = 2

\* C5: a session written to the store and read back (a reload) has the same
\* currentQuestionIndex, the same score and the same answers: the same
\* indices with the same selectedAnswer and correct flag, in the same order.
C5_RoundTrip ==
    /\ localStorage # <<>> =>
          LET read == JSONparse(localStorage)
          IN  /\ read.currentQuestionIndex = testState.currentQuestionIndex
              /\ read.score = testState.score
              /\ read.answers = testState.answers
    /\ (call.name = "reload" /\ prevState # NULL) =>
          /\ testState # NULL
          /\ testState.currentQuestionIndex = prevState.currentQuestionIndex
          /\ testState.score = prevState.score
          /\ testState.answers = prevState.answers

\* a session with a right and a wrong answer and a score was read back
C5_Witness ==
    /\ call.name = "reload"
    /\ testState # NULL
    /\ testState.currentQuestionIndex = 1
    /\ testState.score = 2
    /\ Len(testState.answers) = 2
    /\ \E i, j \in 1..2 : testState.answers[i].correct /\ ~testState.answers[j].correct

----------------------------------------------------------------------------
(* The pages.  Every handler runs to completion before the next event, and *)
(* React renders between two events, so a handler reads the current state. *)

\* words.json as fetched by the test page
Catalog == << Word("wa", "m1", "easy"), Word("wd", "m3", "hard") >>

\* the number of words the test page asks selectRandomWords for
QuizLength == 20

\* the difficulties the home page's Start Test link is followed with
PageDifficulties == {"all", "easy"}

\* testState.selectedWords[testState.currentQuestionIndex], NoWord when undefined
currentWord(state) ==
    IF state.currentQuestionIndex < Len(state.selectedWords)
    THEN state.selectedWords[state.currentQuestionIndex + 1]
    ELSE NoWord

\* The texts of the option buttons of the test page: what the options effect
\* put in currentOptions (nothing as long as no catalog is loaded)
OptionTexts ==
    IF testState = NULL \/ words = <<>> \/ currentWord(testState) = NoWord THEN {}
    ELSE LET wrong == wrongWords(currentWord(testState), words)
         IN  UNION { Range(createMultipleChoiceOptions(currentWord(testState), words, js1, js2)) :
                       js1 \in RandomChoices(Len(wrong)),
                       js2 \in RandomChoices(1 + Min(DistractorCount, Len(wrong))) }

\* loadWords initializing a new test whatever the store held
loadWordsInitializes_Always(state) == TRUE

\* loadWords: "if (!testState)" on the testState of the render that mounted
\* the page; nothing changes testState while the page is loading
loadWordsInitializes(state) == state = NULL

\* Mounting TestContent: the hook reads the store, the page starts loading
MountTest ==
    /\ page' = "test"
    /\ testState' = readStoredValue(localStorage)
    /\ loading' = TRUE
    /\ words' = <<>>
    /\ showAnswer' = FALSE
    /\ saving' = FALSE
    /\ effectPending' = FALSE

\* Mounting ResultContent: the hook reads the store, the save effect is due
MountResult ==
    /\ page' = "result"
    /\ testState' = readStoredValue(localStorage)
    /\ loading' = FALSE
    /\ words' = <<>>
    /\ showAnswer' = FALSE
    /\ saving' = FALSE
    /\ effectPending' = TRUE

\* Home: a difficulty is chosen and the Start Test link is followed
StartTest ==
    /\ page = "home"
    /\ \E d \in PageDifficulties : urlDifficulty' = d
    /\ MountTest
    /\ call' = Called("mount")
    /\ prevState' = testState
    /\ UNCHANGED <<localStorage, now, user, selVars, saveVars>>

\* TestContent: the fetch of words.json succeeded
LoadWordsOk ==
    /\ page = "test"
    /\ loading
    /\ words' = Catalog
    /\ IF loadWordsInitializes(testState)
       THEN /\ \E js \in RandomChoices(Len(filteredWords(Catalog, QuizLength, urlDifficulty))) :
                  initializeTest(selectRandomWords(Catalog, QuizLength, urlDifficulty, js))
            /\ difficulty' = urlDifficulty
       ELSE UNCHANGED <<testState, localStorage, difficulty>>
    /\ loading' = FALSE
    /\ call' = Called("loadWords")
    /\ prevState' = testState
    /\ UNCHANGED <<now, page, urlDifficulty, showAnswer, user, saving, effectPending,
                   pool, count, op, selected, target, options, saveVars>>

\* TestContent: what is rendered when loading is over and there is no session
\* ("Test Error", "Unable to load test. Please try again.")
showsTestError == page = "test" /\ ~loading /\ testState = NULL

\* the catch branch forgetting setLoading(false)
LoadWordsFail_StaysLoading ==
    /\ page = "test"
    /\ loading
    /\ call' = Called("loadWordsFailed")
    /\ prevState' = testState
    /\ UNCHANGED <<testState, localStorage, now, page, urlDifficulty, loading, words,
                   showAnswer, user, saving, effectPending, selVars, saveVars>>

\* TestContent: the fetch failed (the catch branch)
LoadWordsFail ==
    /\ page = "test"
    /\ loading
    /\ loading' = FALSE
    /\ call' = Called("loadWordsFailed")
    /\ prevState' = testState
    /\ UNCHANGED <<testState, localStorage, now, page, urlDifficulty, words, showAnswer,
                   user, saving, effectPending, selVars, saveVars>>

\* TestContent: an option button is pressed
HandleAnswerSelect ==
    /\ page = "test"
    /\ ~loading
    /\ testState # NULL
    /\ ~showAnswer
    /\ testState.score < MaxScore
    /\ \E answer \in OptionTexts :
          LET correct == answer = currentWord(testState).meaning
          IN  /\ recordAnswer(testState.currentQuestionIndex, answer, correct)
              /\ call' = [Called("recordAnswer") EXCEPT
                          !.questionIndex = testState.currentQuestionIndex,
                          !.selectedAnswer = answer, !.correct = correct]
    /\ showAnswer' = TRUE
    /\ prevState' = testState
    /\ UNCHANGED <<now, page, urlDifficulty, loading, words, user, saving, effectPending,
                   selVars, saveVars>>

\* the Next button rendered before the question is answered
HandleNextQuestion_Unanswered ==
    /\ page = "test"
    /\ ~loading
    /\ testState # NULL
    /\ IF testState.currentQuestionIndex >= Len(testState.selectedWords) - 1
       THEN /\ MountResult
            /\ UNCHANGED localStorage
            /\ urlDifficulty' = "all"
       ELSE /\ showAnswer' = FALSE
            /\ nextQuestion
            /\ UNCHANGED <<page, urlDifficulty, loading, words, saving, effectPending>>
    /\ call' = Called("handleNextQuestion")
    /\ prevState' = testState
    /\ UNCHANGED <<now, user, selVars, saveVars>>

\* handleNextQuestion taking every question for the last one
HandleNextQuestion_AlwaysLast ==
    /\ page = "test"
    /\ ~loading
    /\ testState # NULL
    /\ showAnswer
    /\ MountResult
    /\ UNCHANGED localStorage
    /\ urlDifficulty' = "all"
    /\ call' = Called("handleNextQuestion")
    /\ prevState' = testState
    /\ UNCHANGED <<now, user, selVars, saveVars>>

\* TestContent: the Next Question / View Results button (shown once answered)
HandleNextQuestion ==
    /\ page = "test"
    /\ ~loading
    /\ testState # NULL
    /\ showAnswer
    /\ IF testState.currentQuestionIndex >= Len(testState.selectedWords) - 1
       THEN /\ MountResult
            /\ UNCHANGED localStorage
            /\ urlDifficulty' = "all"
       ELSE /\ showAnswer' = FALSE
            /\ nextQuestion
            /\ UNCHANGED <<page, urlDifficulty, loading, words, saving, effectPending>>
    /\ call' = Called("handleNextQuestion")
    /\ prevState' = testState
    /\ UNCHANGED <<now, user, selVars, saveVars>>

\* TestContent: the Exit Test / Back to Home link
ExitTest ==
    /\ page = "test"
    /\ ~loading
    /\ page' = "home"
    /\ testState' = NULL
    /\ words' = <<>>
    /\ showAnswer' = FALSE
    /\ call' = Called("exit")
    /\ prevState' = testState
    /\ UNCHANGED <<localStorage, now, urlDifficulty, loading, user, saving, effectPending,
                   selVars, saveVars>>

\* The browser reloads the test page
ReloadTest ==
    /\ page = "test"
    /\ MountTest
    /\ call' = Called("reload")
    /\ prevState' = testState
    /\ UNCHANGED <<localStorage, now, urlDifficulty, user, selVars, saveVars>>

----------------------------------------------------------------------------
(* useTestResults: saveTestResult, updateUserStats and cleanupOldTests.    *)
(* Each await is a step of its own; savePc names the next one.  A request  *)
(* to Supabase succeeds, comes back with an error object, or throws.       *)

\* Math.floor(n / d) in the place of Math.round
mathRound_Floor(n, d) == n \div d

\* Math.round(n / d) for d > 0
mathRound(n, d) == (2 * n + d) \div (2 * d)

\* The DECIMAL(5,2) value a column takes when it is written the JavaScript
\* number n / d (n, d >= 0), in hundredths: the number rounded to two
\* decimals; NaN and Infinity (d = 0) go out as JSON null and are stored as
\* SQL NULL
quotient(n, d) ==
    IF d = 0 THEN NULL ELSE [hundredths |-> (200 * n + d) \div (2 * d)]

\* cleanupOldTests keeps this many rows
RetentionLimit == 20

\* the row saveTestResult inserts into test_results
testResultRow(args, createdAt) ==
    [user_id |-> args.user,
     score |-> args.testState.score,
     total_questions |-> Len(args.testState.selectedWords),
     difficulty |-> args.difficulty,
     time_taken |-> mathRound(args.endTime - args.testState.startTime, 1000),
     answers |-> args.testState.answers,
     created_at |-> createdAt]

\* updateUserStats taking the session's score as the best score, always
updatedStats_BestIsLast(stats, session) ==
    LET t == IF stats # NULL THEN stats.total_tests + 1 ELSE 1
        q == Len(session.selectedWords)
                + (IF stats # NULL THEN stats.total_questions ELSE 0)
        c == session.score + (IF stats # NULL THEN stats.correct_answers ELSE 0)
    IN  [total_tests |-> t,
         total_questions |-> q,
         correct_answers |-> c,
         accuracy_percentage |-> quotient(c * 100, q),
         average_score |-> quotient(c, t),
         best_score |-> session.score]

\* updateUserStats writing nothing when the user has no row yet
updatedStats_NoFirstRow(stats, session) ==
    IF stats = NULL THEN NULL
    ELSE LET t == stats.total_tests + 1
             q == stats.total_questions + Len(session.selectedWords)
             c == stats.correct_answers + session.score
         IN  [total_tests |-> t,
              total_questions |-> q,
              correct_answers |-> c,
              accuracy_percentage |-> quotient(c * 100, q),
              average_score |-> quotient(c, t),
              best_score |-> IF stats.best_score >= session.score
                             THEN stats.best_score ELSE session.score]

\* the user_stats row updateUserStats writes, from the row it read before
updatedStats(stats, session) ==
    LET totalQuestions == Len(session.selectedWords)
        correctAnswers == session.score
    IN  IF stats # NULL
        THEN LET newTotalTests == stats.total_tests + 1
                 newTotalQuestions == stats.total_questions + totalQuestions
                 newCorrectAnswers == stats.correct_answers + correctAnswers
             IN  [total_tests |-> newTotalTests,
                  total_questions |-> newTotalQuestions,
                  correct_answers |-> newCorrectAnswers,
                  accuracy_percentage |-> quotient(newCorrectAnswers * 100, newTotalQuestions),
                  average_score |-> quotient(newCorrectAnswers, newTotalTests),
                  best_score |-> IF stats.best_score >= correctAnswers
                                 THEN stats.best_score ELSE correctAnswers]
        ELSE [total_tests |-> 1,
              total_questions |-> totalQuestions,
              correct_answers |-> correctAnswers,
              accuracy_percentage |-> quotient(correctAnswers * 100, totalQuestions),
              average_score |-> quotient(correctAnswers, 1),
              best_score |-> correctAnswers]

\* allTests.slice(20) deleted: the newest RetentionLimit rows stay
\* (rows are kept oldest first)
cleanedUp(rows) ==
    IF Len(rows) > RetentionLimit
    THEN SubSeq(rows, Len(rows) - RetentionLimit + 1, Len(rows))
    ELSE rows

\* saveTestResult has returned value ("row": the inserted row, "null", or
\* "thrown" if an exception left it): saveResult's "finally" runs
\* setSaving(false), which renders ResultContent again if it is still mounted
SaveReturns(value) ==
    /\ savePc' = "idle"
    /\ saveArgs' = NULL
    /\ currentStats' = NULL
    /\ saveResult' = value
    /\ IF page = "result"
       THEN saving' = FALSE /\ effectPending' = TRUE
       ELSE UNCHANGED <<saving, effectPending>>

\* The copy of useTestResults the result page imports ('../hooks/useTestResults',
\* src/app/hooks/useTestResults.ts) returns after updateUserStats; the other
\* copy of the hook awaits cleanupOldTests before it returns
PageHookPrunes == FALSE

\* what the catch block of saveTestResult leaves: the error is logged and
\* null is returned
caughtBySaveTestResult_Rethrows == "thrown"

caughtBySaveTestResult == "null"

\* ResultContent: the effect that follows a render
RunSaveEffect ==
    /\ page = "result"
    /\ effectPending
    /\ Len(testResults) < MaxResults
    /\ IF testState = NULL
       THEN \* window.location.href = '/'
            /\ page' = "home"
            /\ effectPending' = FALSE
            /\ UNCHANGED <<saving, savePc, saveArgs, saveResult>>
       ELSE IF user # "none" /\ ~saving
       THEN \* saveResult: setSaving(true), saveTestResult(testState, difficulty)
            /\ saving' = TRUE
            /\ effectPending' = TRUE
            /\ savePc' = "insert"
            /\ saveArgs' = [user |-> user, testState |-> testState,
                            difficulty |-> urlDifficulty, endTime |-> now,
                            prunes |-> PageHookPrunes]
            /\ saveResult' = "none"
            /\ UNCHANGED page
       ELSE /\ effectPending' = FALSE
            /\ UNCHANGED <<page, saving, savePc, saveArgs, saveResult>>
    /\ call' = Called("saveEffect")
    /\ prevState' = testState
    /\ UNCHANGED <<testState, localStorage, now, urlDifficulty, loading, words, showAnswer,
                   user, currentStats, testResults, userStats, selVars>>

\* created_at DEFAULT NOW(): the server's clock, later for every later insert
nextCreatedAt ==
    IF testResults = <<>> THEN 1 ELSE testResults[Len(testResults)].created_at + 1

\* saveTestResult: the insert into test_results succeeded
InsertOk ==
    /\ savePc = "insert"
    /\ testResults' = Append(testResults, testResultRow(saveArgs, nextCreatedAt))
    /\ savePc' = "readStats"
    /\ UNCHANGED <<saveArgs, currentStats, userStats, saveResult, hookVars, pageVars, selVars>>

\* saveTestResult going on to updateUserStats after a failed insert
InsertFail_GoesOn ==
    /\ savePc = "insert"
    /\ savePc' = "readStats"
    /\ UNCHANGED <<saveArgs, currentStats, testResults, userStats, saveResult,
                   hookVars, pageVars, selVars>>

\* saveTestResult: the insert failed (testError): it logs and returns null
InsertFail ==
    /\ savePc = "insert"
    /\ SaveReturns("null")
    /\ UNCHANGED <<testResults, userStats, hookVars, selVars,
                   page, urlDifficulty, loading, words, showAnswer, user>>

\* saveTestResult: the insert threw (the request itself failed): the catch
\* block takes over
InsertThrows ==
    /\ savePc = "insert"
    /\ SaveReturns(caughtBySaveTestResult)
    /\ UNCHANGED <<testResults, userStats, hookVars, selVars,
                   page, urlDifficulty, loading, words, showAnswer, user>>

\* updateUserStats has returned (it returns nothing and catches what it
\* throws): saveTestResult goes on with cleanupOldTests if this copy has it,
\* and returns the inserted row otherwise
AfterUpdateUserStats ==
    IF saveArgs.prunes
    THEN /\ savePc' = "cleanup"
         /\ UNCHANGED <<saveArgs, currentStats, saveResult, saving, effectPending>>
    ELSE SaveReturns("row")

\* updateUserStats: the select on user_stats
ReadStats ==
    /\ savePc = "readStats"
    /\ currentStats' = userStats
    /\ savePc' = "writeStats"
    /\ UNCHANGED <<saveArgs, testResults, userStats, saveResult, hookVars, pageVars, selVars>>

\* updateUserStats: the select came back with an error, which is not looked
\* at: data is null, as for a user without a row
ReadStatsError ==
    /\ savePc = "readStats"
    /\ currentStats' = NULL
    /\ savePc' = "writeStats"
    /\ UNCHANGED <<saveArgs, testResults, userStats, saveResult, hookVars, pageVars, selVars>>

\* updateUserStats computing the new row from the row as it is at the write
WriteStats_Atomic ==
    /\ savePc = "writeStats"
    /\ userStats' = updatedStats(userStats, saveArgs.testState)
    /\ AfterUpdateUserStats
    /\ UNCHANGED <<testResults, hookVars, selVars,
                   page, urlDifficulty, loading, words, showAnswer, user>>

\* updateUserStats: the update of the row read, or the insert of a first row
\* (which the UNIQUE user_id rejects if a row has appeared meanwhile)
WriteStats ==
    /\ savePc = "writeStats"
    /\ userStats' =
          IF currentStats # NULL
          THEN (IF userStats # NULL THEN updatedStats(currentStats, saveArgs.testState)
                ELSE userStats)
          ELSE (IF userStats = NULL THEN updatedStats(NULL, saveArgs.testState)
                ELSE userStats)
    /\ AfterUpdateUserStats
    /\ UNCHANGED <<testResults, hookVars, selVars,
                   page, urlDifficulty, loading, words, showAnswer, user>>

\* updateUserStats: a request threw (caught and logged by updateUserStats) or
\* the write came back with an error (not looked at): no row is written
StatsFail ==
    /\ savePc \in {"readStats", "writeStats"}
    /\ AfterUpdateUserStats
    /\ UNCHANGED <<testResults, userStats, hookVars, selVars,
                   page, urlDifficulty, loading, words, showAnswer, user>>

\* cleanupOldTests, after which saveTestResult returns the inserted row
Cleanup ==
    /\ savePc = "cleanup"
    /\ testResults' = cleanedUp(testResults)
    /\ SaveReturns("row")
    /\ UNCHANGED <<userStats, hookVars, selVars,
                   page, urlDifficulty, loading, words, showAnswer, user>>

\* cleanupOldTests: the select or the delete failed, or a request threw:
\* it logs and returns false, and saveTestResult returns the inserted row
CleanupFail ==
    /\ savePc = "cleanup"
    /\ SaveReturns("row")
    /\ UNCHANGED <<testResults, userStats, hookVars, selVars,
                   page, urlDifficulty, loading, words, showAnswer, user>>

\* ResultContent: Retake Test (resetTest, then a full load of the home page,
\* which ends whatever was running)
HandleRetakeTest ==
    /\ page = "result"
    /\ testState # NULL
    /\ resetTest
    /\ page' = "home"
    /\ saving' = FALSE
    /\ effectPending' = FALSE
    /\ savePc' = "idle"
    /\ saveArgs' = NULL
    /\ currentStats' = NULL
    /\ saveResult' = "none"
    /\ call' = Called("resetTest")
    /\ prevState' = testState
    /\ UNCHANGED <<now, urlDifficulty, loading, words, showAnswer, user,
                   testResults, userStats, selVars>>

\* ResultContent: the Home link (client-side navigation: a running save goes on)
ResultHome ==
    /\ page = "result"
    /\ testState # NULL
    /\ page' = "home"
    /\ testState' = NULL
    /\ saving' = FALSE
    /\ effectPending' = FALSE
    /\ call' = Called("home")
    /\ prevState' = testState
    /\ UNCHANGED <<localStorage, now, urlDifficulty, loading, words, showAnswer, user,
                   saveVars, selVars>>

\* The browser reloads the result page (which ends whatever was running)
ReloadResult ==
    /\ page = "result"
    /\ MountResult
    /\ savePc' = "idle"
    /\ saveArgs' = NULL
    /\ currentStats' = NULL
    /\ saveResult' = "none"
    /\ call' = Called("reload")
    /\ prevState' = testState
    /\ UNCHANGED <<localStorage, now, urlDifficulty, user, testResults, userStats, selVars>>

----------------------------------------------------------------------------
(* Specification of the quiz pages: a browser tab that starts on the home  *)
(* page with an empty store, used by a visitor who is not signed in (the   *)
(* result page then saves nothing).                                        *)

InitTest ==
    /\ SelIdle
    /\ HookIdle
    /\ SaveIdle
    /\ page = "home"
    /\ urlDifficulty = "all"
    /\ loading = FALSE
    /\ words = <<>>
    /\ showAnswer = FALSE
    /\ user = "none"
    /\ saving = FALSE
    /\ effectPending = FALSE

NextTest ==
    \/ StartTest
    \/ LoadWordsOk
    \/ LoadWordsFail
    \/ HandleAnswerSelect
    \/ HandleNextQuestion
    \/ ExitTest
    \/ ReloadTest
    \/ RunSaveEffect
    \/ HandleRetakeTest
    \/ ResultHome
    \/ ReloadResult
    \/ Tick

SpecTest == InitTest /\ [][NextTest]_vars

----------------------------------------------------------------------------
(* Specification of the result page: the tab has just arrived on it from   *)
(* the test page (router.push('/result')) with a completed session in the  *)
(* store; the visitor is signed in or not, and has no rows yet.            *)

Users == {"none", "u1"}

\* the sessions the test page leaves when every question of the catalog was
\* answered once, in order, with answer picks[i] for question i
CompletedSession(wordList, picks) ==
    [currentQuestionIndex |-> Len(wordList) - 1,
     score |-> Cardinality({ i \in 1..Len(wordList) : picks[i] = wordList[i].meaning }),
     selectedWords |-> wordList,
     answers |-> [i \in 1..Len(wordList) |->
                     [questionIndex |-> i - 1,
                      selectedAnswer |-> picks[i],
                      correct |-> picks[i] = wordList[i].meaning]],
     startTime |-> 0]

CompletedSessions ==
    { CompletedSession(shuffleArray(Catalog, js), picks) :
        js \in RandomChoices(Len(Catalog)),
        picks \in [1..Len(Catalog) -> { w.meaning : w \in Range(Catalog) }] }

InitResult ==
    /\ SelIdle
    /\ SaveIdle
    /\ \E session \in CompletedSessions :
          /\ localStorage = JSONstringify(session)
          /\ testState = session
          /\ prevState = session
    /\ now = 0
    /\ call = Called("handleNextQuestion")
    /\ page = "result"
    /\ urlDifficulty = "all"
    /\ loading = FALSE
    /\ words = <<>>
    /\ showAnswer = FALSE
    /\ user \in Users
    /\ saving = FALSE
    /\ effectPending = TRUE

NextResult ==
    \/ RunSaveEffect
    \/ InsertOk
    \/ InsertFail
    \/ InsertThrows
    \/ ReadStats
    \/ ReadStatsError
    \/ WriteStats
    \/ StatsFail
    \/ HandleRetakeTest
    \/ ResultHome
    \/ ReloadResult
    \/ Tick

SpecResult == InitResult /\ [][NextResult]_vars

\* The same, while the result page stays shown: no reload, no navigation
NextResultShown ==
    \/ RunSaveEffect
    \/ InsertOk
    \/ InsertFail
    \/ InsertThrows
    \/ ReadStats
    \/ ReadStatsError
    \/ WriteStats
    \/ StatsFail
    \/ Tick

SpecResultShown == InitResult /\ [][NextResultShown]_vars

----------------------------------------------------------------------------
(* Specification of useTestResults on its own: a signed-in user with some  *)
(* history and statistics calls saveTestResult, of either copy of the      *)
(* hook, with a finished session.                                          *)

MaxSaves == 1   \* saveTestResult is not called any more after this many inserts,
                \* nor for a user with more tests than this in user_stats

\* a quiz of twenty words
TwentyWords == [i \in 1..20 |-> Word(ToString(i), ToString(i), "easy")]

\* the first right answers of a session are correct, the others are not
AnsweredSession(wordList, right) ==
    CompletedSession(wordList,
                     [i \in 1..Len(wordList) |->
                         IF i <= right THEN wordList[i].meaning ELSE "wrong"])

\* the sessions handed to saveTestResult; the last one is what
\* initializeTest([]) leaves
SaveSessions ==
    { AnsweredSession(Catalog, 0), AnsweredSession(Catalog, 2),
      AnsweredSession(TwentyWords, 15),
      [currentQuestionIndex |-> 0, score |-> 0, selectedWords |-> <<>>,
       answers |-> <<>>, startTime |-> 0] }

\* the row deleteAllTestHistory leaves
zeroStats ==
    [total_tests |-> 0, total_questions |-> 0, correct_answers |-> 0,
     accuracy_percentage |-> [hundredths |-> 0], average_score |-> [hundredths |-> 0],
     best_score |-> 0]

\* the statistics of a user: none yet, those of one saved session, or those
\* left by a reset of the history
PriorStats ==
    {NULL, zeroStats} \cup { updatedStats(NULL, session) : session \in SaveSessions }

\* n earlier rows of test_results, oldest first
History(n) ==
    [i \in 1..n |->
        testResultRow([user |-> "u1", testState |-> AnsweredSession(Catalog, 1),
                       difficulty |-> "all", endTime |-> 0], i - n)]

HistoryLengths == {0, RetentionLimit - 1, RetentionLimit}

InitSave ==
    /\ SelIdle
    /\ HookIdle
    /\ page = "none"
    /\ urlDifficulty = "all"
    /\ loading = FALSE
    /\ words = <<>>
    /\ showAnswer = FALSE
    /\ user = "u1"
    /\ saving = FALSE
    /\ effectPending = FALSE
    /\ savePc = "idle"
    /\ saveArgs = NULL
    /\ currentStats = NULL
    /\ testResults \in { History(n) : n \in HistoryLengths }
    /\ userStats \in PriorStats
    /\ saveResult = "none"

\* saveTestResult: "if (!user || !testState) return null"
refusesSave_OnlyNoSession(u, session) == session = NULL

refusesSave(u, session) == u = "none" \/ session = NULL

\* a call of saveTestResult(session, "all") of the hook used on its own, no
\* page being mounted (endTime = Date.now())
SaveTestResultOf(session, prunes) ==
    /\ savePc = "idle"
    /\ page = "none"
    /\ nextCreatedAt <= MaxSaves
    /\ userStats # NULL => userStats.total_tests <= MaxSaves
    /\ IF refusesSave(user, session)
       THEN SaveReturns("null")
       ELSE /\ saveArgs' = [user |-> user, testState |-> session, difficulty |-> "all",
                            endTime |-> now, prunes |-> prunes]
            /\ savePc' = "insert"
            /\ saveResult' = "none"
            /\ UNCHANGED <<currentStats, saving, effectPending>>
    /\ UNCHANGED <<testResults, userStats, hookVars, selVars,
                   page, urlDifficulty, loading, words, showAnswer, user>>

\* a call of saveTestResult with a session
SaveTestResult ==
    \E session \in SaveSessions, prunes \in BOOLEAN : SaveTestResultOf(session, prunes)

NextSave ==
    \/ SaveTestResult
    \/ InsertOk
    \/ InsertFail
    \/ InsertThrows
    \/ ReadStats
    \/ ReadStatsError
    \/ WriteStats
    \/ StatsFail
    \/ Cleanup
    \/ CleanupFail
    \/ Tick

SpecSave == InitSave /\ [][NextSave]_vars

\* The same when every request to Supabase succeeds
NextSaveOk ==
    \/ SaveTestResult
    \/ InsertOk
    \/ ReadStats
    \/ WriteStats
    \/ Cleanup
    \/ Tick

SpecSaveOk == InitSave /\ [][NextSaveOk]_vars

----------------------------------------------------------------------------
(* deleteAllTestHistory, of the copy of useTestResults that has it.  It    *)
(* runs when no other call of the hook does; savePc, currentStats and      *)
(* saveResult hold its position, the row it read and what it returned.    *)

\* deleteAllTestHistory leaving the best score of the row it read
resetStats_KeepsBest(existingStats) ==
    IF existingStats # NULL
    THEN [zeroStats EXCEPT !.best_score = existingStats.best_score]
    ELSE zeroStats

\* the user_stats row deleteAllTestHistory writes: the same zeros by update
\* (a row was read) and by insert (none was)
resetStats(existingStats) == zeroStats

\* deleteAllTestHistory has returned value ("true" or "false")
ResetReturns(value) ==
    /\ savePc' = "idle"
    /\ currentStats' = NULL
    /\ saveResult' = value

\* a call of deleteAllTestHistory() by a signed-in user
DeleteAllTestHistory ==
    /\ savePc = "idle"
    /\ user # "none"
    /\ savePc' = "resetDelete"
    /\ saveResult' = "none"
    /\ UNCHANGED <<saveArgs, currentStats, testResults, userStats, hookVars, pageVars, selVars>>

\* deleteAllTestHistory: the delete of the user's test_results rows
DeleteRows ==
    /\ savePc = "resetDelete"
    /\ testResults' = <<>>
    /\ savePc' = "resetRead"
    /\ UNCHANGED <<saveArgs, currentStats, userStats, saveResult, hookVars, pageVars, selVars>>

\* deleteAllTestHistory going on to the statistics after a delete that failed
DeleteRowsFail_GoesOn ==
    /\ savePc = "resetDelete"
    /\ savePc' = "resetRead"
    /\ UNCHANGED <<saveArgs, currentStats, testResults, userStats, saveResult, hookVars,
                   pageVars, selVars>>

\* deleteAllTestHistory: the delete failed (deleteError, or a throw that the
\* catch block takes): it logs and returns false
DeleteRowsFail ==
    /\ savePc = "resetDelete"
    /\ ResetReturns("false")
    /\ UNCHANGED <<saveArgs, testResults, userStats, hookVars, pageVars, selVars>>

\* deleteAllTestHistory: the select on user_stats
ResetReadStats ==
    /\ savePc = "resetRead"
    /\ currentStats' = userStats
    /\ savePc' = "resetWrite"
    /\ UNCHANGED <<saveArgs, testResults, userStats, saveResult, hookVars, pageVars, selVars>>

\* deleteAllTestHistory: the select came back with an error, which is not
\* looked at: existingStats is null
ResetReadStatsError ==
    /\ savePc = "resetRead"
    /\ currentStats' = NULL
    /\ savePc' = "resetWrite"
    /\ UNCHANGED <<saveArgs, testResults, userStats, saveResult, hookVars, pageVars, selVars>>

\* deleteAllTestHistory: the update to zero of the row read, or the insert of
\* a row of zeros, which the UNIQUE user_id rejects (statsError) if the user
\* has a row
ResetWriteStats ==
    /\ savePc = "resetWrite"
    /\ IF currentStats # NULL
       THEN /\ userStats' = (IF userStats # NULL THEN resetStats(currentStats) ELSE userStats)
            /\ ResetReturns("true")
       ELSE IF userStats = NULL
       THEN /\ userStats' = resetStats(currentStats)
            /\ ResetReturns("true")
       ELSE /\ UNCHANGED userStats
            /\ ResetReturns("false")
    /\ UNCHANGED <<saveArgs, testResults, hookVars, pageVars, selVars>>

\* deleteAllTestHistory: the write failed (statsError, or a throw that the
\* catch block takes): it logs and returns false
ResetWriteStatsFail ==
    /\ savePc \in {"resetRead", "resetWrite"}
    /\ ResetReturns("false")
    /\ UNCHANGED <<saveArgs, testResults, userStats, hookVars, pageVars, selVars>>

\* saves and resets of the history of one signed-in user, one call at a time
NextHistory ==
    \/ SaveTestResult
    \/ InsertOk
    \/ InsertFail
    \/ InsertThrows
    \/ ReadStats
    \/ ReadStatsError
    \/ WriteStats
    \/ StatsFail
    \/ Cleanup
    \/ CleanupFail
    \/ DeleteAllTestHistory
    \/ DeleteRows
    \/ DeleteRowsFail
    \/ ResetReadStats
    \/ ResetReadStatsError
    \/ ResetWriteStats
    \/ ResetWriteStatsFail
    \/ Tick

SpecHistory == InitSave /\ [][NextHistory]_vars

----------------------------------------------------------------------------
(* Two tabs of one signed-in user.  The second tab runs the same           *)
(* saveTestResult against the same tables; nothing orders its requests     *)
(* with those of the first tab.  Here its requests (insert, select on     *)
(* user_stats, write, and the cleanup if its copy has one) all succeed and *)
(* fall together between two requests of the first tab.                    *)

OtherTabSaves ==
    /\ nextCreatedAt <= MaxSaves + 1
    /\ \E session \in SaveSessions, prunes \in BOOLEAN :
          LET args == [user |-> user, testState |-> session, difficulty |-> "all",
                       endTime |-> now, prunes |-> prunes]
              inserted == Append(testResults, testResultRow(args, nextCreatedAt))
          IN  /\ testResults' = IF prunes THEN cleanedUp(inserted) ELSE inserted
              /\ userStats' = updatedStats(userStats, session)
    /\ UNCHANGED <<savePc, saveArgs, currentStats, saveResult, hookVars, pageVars, selVars>>

NextTabs ==
    \/ SaveTestResult
    \/ InsertOk
    \/ InsertFail
    \/ InsertThrows
    \/ ReadStats
    \/ ReadStatsError
    \/ WriteStats
    \/ StatsFail
    \/ Cleanup
    \/ CleanupFail
    \/ OtherTabSaves
    \/ Tick

SpecTabs == InitSave /\ [][NextTabs]_vars

----------------------------------------------------------------------------
(* Two tabs on the same origin: both keep their session under the key      *)
(* 'vocabtest-state'.  useLocalStorage has no listener for the storage     *)
(* event, so a tab's state changes only by its own calls; what the other   *)
(* tab does shows as a change of the item.  The other tab runs the same    *)
(* hook, so what it writes is the whole session it holds.  The clock      *)
(* stands still: only startTime depends on it.                             *)

\* sessions the other tab holds after a call of useTestState
OtherTabStates ==
    { [currentQuestionIndex |-> 0, score |-> 0,
       selectedWords |-> << Word("wb", "m2", "easy"), Word("wa", "m1", "easy") >>,
       answers |-> <<>>, startTime |-> 0],
      [currentQuestionIndex |-> 1, score |-> 1,
       selectedWords |-> << Word("wb", "m2", "easy"), Word("wa", "m1", "easy") >>,
       answers |-> << [questionIndex |-> 0, selectedAnswer |-> "m2", correct |-> TRUE] >>,
       startTime |-> 0] }

\* setValue in the other tab
OtherTabWrites ==
    /\ \E value \in OtherTabStates : localStorage' = JSONstringify(value)
    /\ call' = Called("otherTabWrites")
    /\ prevState' = testState
    /\ UNCHANGED <<testState, now, selVars, pageVars, saveVars>>

\* removeValue in the other tab
OtherTabRemoves ==
    /\ localStorage' = <<>>
    /\ call' = Called("otherTabRemoves")
    /\ prevState' = testState
    /\ UNCHANGED <<testState, now, selVars, pageVars, saveVars>>

NextHookTabs ==
    \/ InitializeTest
    \/ RecordAnswer
    \/ NextQuestion
    \/ ResetTest
    \/ Reload
    \/ OtherTabWrites
    \/ OtherTabRemoves

SpecHookTabs == InitHook /\ [][NextHookTabs]_vars

----------------------------------------------------------------------------
(* Specification of the quiz pages used by a signed-in user whose requests *)
(* to Supabase succeed.  Besides following the links of the pages, the     *)
(* browser can be sent to /result from anywhere (address bar, history,     *)
(* bookmark): ResultContent is the page of that route and mounts whatever  *)
(* the store holds.  The clock stands still: what is saved does not       *)
(* depend on it.                                                           *)

\* The browser loads /result while another page is shown
OpenResult ==
    /\ page \in {"home", "test"}
    /\ MountResult
    /\ urlDifficulty' = "all"
    /\ savePc' = "idle"
    /\ saveArgs' = NULL
    /\ currentStats' = NULL
    /\ saveResult' = "none"
    /\ call' = Called("openResult")
    /\ prevState' = testState
    /\ UNCHANGED <<localStorage, now, user, testResults, userStats, selVars>>

InitQuiz ==
    /\ SelIdle
    /\ HookIdle
    /\ SaveIdle
    /\ page = "home"
    /\ urlDifficulty = "all"
    /\ loading = FALSE
    /\ words = <<>>
    /\ showAnswer = FALSE
    /\ user = "u1"
    /\ saving = FALSE
    /\ effectPending = FALSE

\* following the links and buttons of the pages
NextQuizLinks ==
    \/ StartTest
    \/ LoadWordsOk
    \/ HandleAnswerSelect
    \/ HandleNextQuestion
    \/ RunSaveEffect
    \/ InsertOk
    \/ ReadStats
    \/ WriteStats
    \/ HandleRetakeTest

SpecQuizLinks == InitQuiz /\ [][NextQuizLinks]_vars

NextQuiz ==
    \/ NextQuizLinks
    \/ OpenResult

SpecQuiz == InitQuiz /\ [][NextQuiz]_vars

----------------------------------------------------------------------------
(* Specification of a quiz taken in one go: the visitor starts a test and, *)
(* once it is loaded, keeps selecting an option and pressing the button    *)
(* for as long as they are there, and the fetch ends: weak fairness of     *)
(* the fetch and of both handlers.  No reload, no leaving.                 *)

\* TestContent: the Next Question / View Results button is rendered
nextButtonShown == page = "test" /\ ~loading /\ testState # NULL /\ showAnswer

NextRun ==
    \/ StartTest
    \/ LoadWordsOk
    \/ HandleAnswerSelect
    \/ HandleNextQuestion
    \/ Tick

\* weak fairness of HandleNextQuestion, which is enabled exactly while its
\* button is rendered
PressesNextButton == []<>(~nextButtonShown) \/ []<><<HandleNextQuestion>>_vars

SpecRun ==
    /\ InitTest
    /\ [][NextRun]_vars
    /\ WF_vars(LoadWordsOk)
    /\ WF_vars(HandleAnswerSelect)
    /\ PressesNextButton

----------------------------------------------------------------------------
(* Specification of the quiz pages when words.json may hold no word at     *)
(* all: a signed-in user starts tests, answers, and may load /result       *)
(* directly; requests to Supabase succeed and the clock stands still.      *)

\* TestContent: the fetch of words.json succeeded and gave an empty array
LoadWordsEmpty ==
    /\ page = "test"
    /\ loading
    /\ words' = <<>>
    /\ IF loadWordsInitializes(testState)
       THEN /\ initializeTest(selectRandomWords(<<>>, QuizLength, urlDifficulty, <<>>))
            /\ difficulty' = urlDifficulty
       ELSE UNCHANGED <<testState, localStorage, difficulty>>
    /\ loading' = FALSE
    /\ call' = Called("loadWords")
    /\ prevState' = testState
    /\ UNCHANGED <<now, page, urlDifficulty, showAnswer, user, saving, effectPending,
                   pool, count, op, selected, target, options, saveVars>>

NextShort ==
    \/ StartTest
    \/ LoadWordsOk
    \/ LoadWordsEmpty
    \/ HandleAnswerSelect
    \/ HandleNextQuestion
    \/ OpenResult
    \/ RunSaveEffect
    \/ InsertOk
    \/ ReadStats
    \/ WriteStats

SpecShort == InitQuiz /\ [][NextShort]_vars

----------------------------------------------------------------------------
(* Specification of one timed quiz: a signed-in user starts a test, answers *)
(* it, reloading the test page at will while the clock runs, and the result *)
(* page saves it; the inserts succeed.                                      *)

NextTimed ==
    \/ StartTest
    \/ LoadWordsOk
    \/ HandleAnswerSelect
    \/ HandleNextQuestion
    \/ ReloadTest
    \/ RunSaveEffect
    \/ InsertOk
    \/ ReadStats
    \/ WriteStats
    \/ Tick

SpecTimed == InitQuiz /\ [][NextTimed]_vars

----------------------------------------------------------------------------
(* Claims about the pages                                                  *)

\* C3 (checked under SpecResultShown): for a signed-in user, one completed
\* quiz session results in exactly one test_results insert and exactly one
\* statistics increment, however often the result page renders again and its
\* save effect runs again while the page is shown.
C3_OneSavePerSession ==
    /\ Len(testResults) <= 1
    /\ userStats # NULL => userStats.total_tests <= 1

\* C4 (checked under SpecTest): every mutation of the session is in the store
\* when its handler ends, and after a reload the test page presents the
\* session as the last mutation left it (same currentQuestionIndex, score,
\* answers and selectedWords): the reload reads it back and loadWords neither
\* initializes a new test nor selects words again.
C4_ReloadResumes ==
    /\ (page = "test" /\ testState # NULL) => localStorage = JSONstringify(testState)
    /\ (page = "test" /\ call.name \in {"reload", "loadWords"} /\ prevState # NULL) =>
          /\ testState # NULL
          /\ testState.currentQuestionIndex = prevState.currentQuestionIndex
          /\ testState.score = prevState.score
          /\ testState.answers = prevState.answers
          /\ testState.selectedWords = prevState.selectedWords

\* the second question was answered, then the page was reloaded
C4_Witness ==
    /\ page = "test"
    /\ call.name = "reload"
    /\ prevState # NULL
    /\ testState # NULL
    /\ testState.currentQuestionIndex = 1
    /\ Len(testState.answers) = 2
    /\ testState.score >= 1

----------------------------------------------------------------------------
(* Claims about the selection engine (checked under SpecSelect)            *)

\* the number of pool items that carry the tag
CountWithDifficulty(tag) == Cardinality({ i \in 1..Len(pool) : pool[i].difficulty = tag })

\* Some sequence of random draws makes selectRandomWords return the word w
CanBeSelected(w) ==
    \E js \in RandomChoices(Len(filteredWords(pool, count, difficulty))) :
       w \in Range(selectRandomWords(pool, count, difficulty, js))

\* s and t hold the same elements with the same multiplicities
IsPermutation(s, t) ==
    /\ Len(s) = Len(t)
    /\ \A x \in Range(s) \cup Range(t) : Occurrences(s, x) = Occurrences(t, x)

\* C6: for a pool of distinct items and a count c <= |pool|, selectRandomWords
\* returns exactly c items, each an element of the pool, none of them twice,
\* whatever the difficulty tag.
C6_SelectExactlyCount ==
    (op = "selectRandomWords" /\ Distinct(pool) /\ count <= Len(pool)) =>
        /\ Len(selected) = count
        /\ Range(selected) \subseteq Range(pool)
        /\ Distinct(selected)

C6_Witness ==
    /\ op = "selectRandomWords"
    /\ Distinct(pool)
    /\ Len(pool) = 3
    /\ count = 2
    /\ difficulty = "easy"
    /\ Len(selected) = 2

\* C7: when the tag is not "all" and fewer than count pool items carry it, the
\* result is drawn from the entire pool: it has min(count, |pool|) items of the
\* pool, every pool item of any difficulty can be returned, and no difficulty
\* filter is applied to what is returned.
C7_FallbackToWholePool ==
    (/\ op = "selectRandomWords"
     /\ difficulty # "all"
     /\ CountWithDifficulty(difficulty) < count) =>
        /\ Len(selected) = Min(count, Len(pool))
        /\ Range(selected) \subseteq Range(pool)
        /\ \A w \in Range(pool) : CanBeSelected(w)

\* one easy word in the pool, more easy words asked for: a hard word is returned
C7_Witness ==
    /\ op = "selectRandomWords"
    /\ difficulty = "easy"
    /\ CountWithDifficulty("easy") = 1
    /\ count > 1
    /\ \E i \in 1..Len(selected) : selected[i].difficulty = "hard"

\* C8: when the tag is not "all" and at least count pool items carry it, every
\* returned item has the requested difficulty; when the tag is "all" no item
\* is excluded by difficulty (any pool item can be returned and the result has
\* min(count, |pool|) items).
C8_FilterByDifficulty ==
    (op = "selectRandomWords") =>
        /\ (difficulty # "all" /\ CountWithDifficulty(difficulty) >= count) =>
              \A i \in 1..Len(selected) : selected[i].difficulty = difficulty
        /\ (difficulty = "all") =>
              /\ Len(selected) = Min(count, Len(pool))
              /\ Range(selected) \subseteq Range(pool)
              /\ count >= 1 => \A w \in Range(pool) : CanBeSelected(w)

\* a pool with easy and hard words, two easy words asked for and returned
C8_Witness ==
    /\ op = "selectRandomWords"
    /\ difficulty = "easy"
    /\ count = 2
    /\ \E i \in 1..Len(pool) : pool[i].difficulty = "hard"
    /\ Len(selected) = 2
    /\ \A i \in 1..Len(selected) : selected[i].difficulty = "easy"

\* C9: when the pool has fewer than count items, selectRandomWords returns
\* exactly |pool| items, the whole pool in some order, for every tag.
C9_ShortPoolReturnsAll ==
    (op = "selectRandomWords" /\ Len(pool) < count) =>
        /\ Len(selected) = Len(pool)
        /\ IsPermutation(selected, pool)

C9_Witness ==
    /\ op = "selectRandomWords"
    /\ Len(pool) = 2
    /\ count = 3
    /\ difficulty = "hard"
    /\ Len(selected) = 2
    /\ selected # pool

----------------------------------------------------------------------------
(* Claims about the distractor generator (checked under SpecOptions)       *)

\* C10: the option list returned by createMultipleChoiceOptions contains the
\* target's correct meaning exactly once, for every target and every pool.
C10_CorrectMeaningExactlyOnce ==
    (op = "createMultipleChoiceOptions") =>
        Occurrences(options, target.meaning) = 1


\* the number of pool items whose word differs from the target's word
\* (and, with a meaning, that also carry this meaning)
OtherItems == { i \in 1..Len(pool) : pool[i].word # target.word }

OtherItemsMeaning(m) == { i \in OtherItems : pool[i].meaning = m }

\* C11: createMultipleChoiceOptions returns 4 options when at least 3 pool
\* items have a word other than the target's, and k + 1 options when only
\* k < 3 such items exist; the options are the correct meaning plus meanings
\* of items whose word is not the target's word, each such item used at most
\* once.
C11_OptionCount ==
    (op = "createMultipleChoiceOptions") =>
        /\ Len(options) = Min(3, Cardinality(OtherItems)) + 1
        /\ Occurrences(options, target.meaning) >= 1
        /\ \A m \in Range(options) :
              Occurrences(options, m) <=
                 Cardinality(OtherItemsMeaning(m)) + (IF m = target.meaning THEN 1 ELSE 0)

\* four options from a pool with three other words
C11_Witness ==
    /\ op = "createMultipleChoiceOptions"
    /\ Cardinality(OtherItems) = 3
    /\ Len(options) = 4
    /\ options[1] # target.meaning

\* two options from a pool that holds the target and one other word
C11_WitnessShort ==
    /\ op = "createMultipleChoiceOptions"
    /\ Cardinality(OtherItems) = 1
    /\ Len(pool) = 2
    /\ Len(options) = 2

----------------------------------------------------------------------------
(* Claims about the operations of the session hook (checked under SpecHook) *)

\* C12: initializeTest(items) leaves, whatever the state before, a session
\* with currentQuestionIndex 0, score 0, no answers, selectedWords = items and
\* startTime = the current time, and the store holds that session.
C12_InitializeFresh ==
    [][InitializeTest =>
          /\ testState' = [currentQuestionIndex |-> 0,
                           score |-> 0,
                           selectedWords |-> call'.wordList,
                           answers |-> <<>>,
                           startTime |-> now]
          /\ localStorage' # <<>>
          /\ readStoredValue(localStorage') = testState']_vars

\* initializeTest over a session that had answers, a score and an older start
C12_Witness ==
    /\ call.name = "initializeTest"
    /\ prevState # NULL
    /\ prevState.score > 0
    /\ prevState.currentQuestionIndex > 0
    /\ Len(prevState.answers) > 0
    /\ prevState.startTime < now
    /\ prevState.selectedWords # call.wordList
    /\ Len(call.wordList) = 2
    /\ testState.score = 0

\* C13: nextQuestion adds exactly 1 to currentQuestionIndex when it is below
\* the last index and changes nothing (state and store) when it is the last.
C13_AdvanceByOne ==
    (call.name = "nextQuestion" /\ prevState # NULL) =>
        /\ testState =
              IF prevState.currentQuestionIndex < Len(prevState.selectedWords) - 1
              THEN [prevState EXCEPT !.currentQuestionIndex = @ + 1]
              ELSE prevState
        /\ testState.currentQuestionIndex <= prevState.currentQuestionIndex + 1
        /\ prevState.currentQuestionIndex = Len(prevState.selectedWords) - 1
              => testState.currentQuestionIndex = prevState.currentQuestionIndex

\* an advance from the first question to the second
C13_Witness ==
    /\ call.name = "nextQuestion"
    /\ prevState # NULL
    /\ prevState.currentQuestionIndex = 0
    /\ Len(prevState.selectedWords) = 2
    /\ testState.currentQuestionIndex = 1

\* an advance attempted on the last question
C13_WitnessLast ==
    /\ call.name = "nextQuestion"
    /\ prevState # NULL
    /\ Len(prevState.selectedWords) = 2
    /\ prevState.currentQuestionIndex = 1
    /\ testState = prevState

\* C14: resetTest leaves no session in memory and no item in the store, so
\* the state a reload would read from the store is the absent session.
C14_ResetClears ==
    (call.name = "resetTest") =>
        /\ testState = NULL
        /\ localStorage = <<>>
        /\ readStoredValue(localStorage) = NULL

\* a reset of a session in progress
C14_Witness ==
    /\ call.name = "resetTest"
    /\ prevState # NULL
    /\ prevState.score > 0
    /\ Len(prevState.answers) > 0
    /\ testState = NULL

\* C14: a reload that follows a reset finds no session
C14_ReloadAfterReset ==
    [][(call.name = "resetTest" /\ Reload) => testState' = NULL]_vars

----------------------------------------------------------------------------
(* Claims about leaving the result page (checked under SpecTest)           *)

\* the user is on the home page and arrived there from the result page
LeftResultPage == page = "home" /\ call.name \in {"home", "resetTest"}

\* C15: when the user has left the result page of a completed quiz and starts
\* a test from the home page, the test page finds no session to resume (so
\* that loadWords begins a fresh one with newly selected words).
C15_FreshAfterResult ==
    [][(LeftResultPage /\ StartTest) =>
          /\ testState' = NULL
          /\ localStorage' = <<>>]_vars

----------------------------------------------------------------------------
(* Claims about useTestResults (checked under SpecSave)                    *)

\* the totals of a statistics row, those of an absent row being zero
TotalsOf(stats) ==
    IF stats = NULL
    THEN [total_tests |-> 0, total_questions |-> 0, correct_answers |-> 0, best_score |-> 0]
    ELSE [total_tests |-> stats.total_tests, total_questions |-> stats.total_questions,
          correct_answers |-> stats.correct_answers, best_score |-> stats.best_score]

\* C16: when updateUserStats writes the statistics of a session with score s
\* over n questions on top of the row it read (totals t, q, c, best b; zero if
\* there was none), the row written has total_tests = t + 1,
\* total_questions = q + n, correct_answers = c + s and best_score = max(b, s),
\* so that best_score changes only if s exceeds b; s = 15 and n = 20 on empty
\* statistics give accuracy_percentage 75.00.
C16_StatsTotals ==
    [][(WriteStats /\ userStats = currentStats) =>
          LET s == saveArgs.testState.score
              n == Len(saveArgs.testState.selectedWords)
              old == TotalsOf(userStats)
          IN  /\ userStats' # NULL
              /\ userStats'.total_tests = old.total_tests + 1
              /\ userStats'.total_questions = old.total_questions + n
              /\ userStats'.correct_answers = old.correct_answers + s
              /\ userStats'.best_score = (IF s > old.best_score THEN s ELSE old.best_score)
              /\ (s <= old.best_score => userStats'.best_score = old.best_score)
              /\ (userStats = NULL /\ s = 15 /\ n = 20)
                    => userStats'.accuracy_percentage = [hundredths |-> 7500]]_vars

\* a session that beats the best score of the row read has been written
C16_Witness ==
    /\ savePc = "cleanup"
    /\ currentStats # NULL
    /\ userStats # NULL
    /\ userStats.total_tests = currentStats.total_tests + 1
    /\ userStats.total_questions = currentStats.total_questions + 20
    /\ userStats.correct_answers = currentStats.correct_answers + 15
    /\ currentStats.best_score = 2
    /\ userStats.best_score = 15

\* a session below the best score of the row read has been written
C16_WitnessKeepsBest ==
    /\ savePc = "cleanup"
    /\ currentStats # NULL
    /\ userStats # NULL
    /\ userStats.total_tests = currentStats.total_tests + 1
    /\ saveArgs.testState.score = 2
    /\ currentStats.best_score = 15
    /\ userStats.best_score = 15

\* 15 of 20 on empty statistics has been written
C16_WitnessFirst ==
    /\ savePc = "cleanup"
    /\ currentStats = NULL
    /\ userStats # NULL
    /\ userStats.total_tests = 1
    /\ userStats.total_questions = 20
    /\ userStats.accuracy_percentage = [hundredths |-> 7500]

\* C17: the row a statistics write leaves satisfies
\* accuracy_percentage * total_questions = correct_answers * 100 and
\* average_score * total_tests = correct_answers (the two columns are counted
\* in hundredths), also for a quiz of zero questions and for prior totals of
\* zero.
C17_StatsConsistent ==
    [][(WriteStats /\ userStats' # userStats) =>
          /\ userStats'.accuracy_percentage # NULL
          /\ userStats'.average_score # NULL
          /\ userStats'.accuracy_percentage.hundredths * userStats'.total_questions
                = userStats'.correct_answers * 100 * 100
          /\ userStats'.average_score.hundredths * userStats'.total_tests
                = userStats'.correct_answers * 100]_vars


\* C18 (checked under SpecSaveOk): once saveTestResult has returned the inserted row, the user has at
\* most 20 rows in test_results, and they are the most recent ones: the row
\* just inserted and the rows created right before it, none left out.
C18_AtMostTwentyRows ==
    (saveResult = "row") =>
        /\ Len(testResults) <= 20
        /\ \A i \in 1..(Len(testResults) - 1) :
              testResults[i + 1].created_at = testResults[i].created_at + 1

\* C18, for the copy of the hook that has cleanupOldTests: when the cleanup
\* goes through, the newest 20 rows stay and the older ones are gone.
C18_CleanupKeepsNewest ==
    [][Cleanup =>
          /\ Len(testResults') = (IF Len(testResults) > 20 THEN 20 ELSE Len(testResults))
          /\ \A i \in 1..Len(testResults') :
                testResults'[i] = testResults[Len(testResults) - Len(testResults') + i]]_vars

\* C19 (checked under SpecResultShown): when the insert into test_results
\* fails, saveTestResult returns null without reading or writing user_stats
\* and without pruning test_results, and the failed save is not started again.
C19_InsertFailureEndsSave ==
    [][/\ (InsertFail \/ InsertThrows) =>
             /\ saveResult' = "null"
             /\ savePc' = "idle"
             /\ currentStats = NULL /\ currentStats' = NULL
             /\ UNCHANGED <<userStats, testResults>>
       /\ (saveResult = "null") => savePc' = "idle"]_vars

\* C19, for saveTestResult alone (checked under SpecSave): a failed insert
\* makes it return null, with user_stats and test_results left as they were.
C19_HookReturnsNull ==
    [][(InsertFail \/ InsertThrows) =>
          /\ saveResult' = "null"
          /\ savePc' = "idle"
          /\ currentStats = NULL /\ currentStats' = NULL
          /\ UNCHANGED <<userStats, testResults>>]_vars

C20_WitnessInsert ==
    /\ saveResult = "null"
    /\ testResults = <<>>
    /\ page = "result"
    /\ ~saving
    /\ testState # NULL

\* C20, for saveTestResult alone, pruning included (checked under SpecSave):
\* whatever fails, it returns the inserted row or null.
C20_HookNeverThrows ==
    saveResult \in {"none", "row", "null"}

\* C21: when updateUserStats finds no row for the user it creates one, with
\* total_tests = 1, total_questions = n, correct_answers = s,
\* average_score = s, best_score = s and, for n > 0, accuracy_percentage =
\* s / n * 100 to the two decimals of the column; saveTestResult goes on as
\* after an update.
C21_FirstRowCreated ==
    [][(WriteStats /\ currentStats = NULL /\ userStats = NULL) =>
          LET s == saveArgs.testState.score
              n == Len(saveArgs.testState.selectedWords)
          IN  /\ userStats' # NULL
              /\ userStats'.total_tests = 1
              /\ userStats'.total_questions = n
              /\ userStats'.correct_answers = s
              /\ userStats'.average_score = [hundredths |-> 100 * s]
              /\ userStats'.best_score = s
              /\ n > 0 =>
                    /\ userStats'.accuracy_percentage # NULL
                    /\ 2 * (userStats'.accuracy_percentage.hundredths * n - 10000 * s) <= n
                    /\ 2 * (10000 * s - userStats'.accuracy_percentage.hundredths * n) <= n
              /\ saveResult' # "null"
              /\ savePc' \in {"cleanup", "idle"}]_vars

\* a first row has been created for a session with every answer right
C21_Witness ==
    /\ savePc = "cleanup"
    /\ currentStats = NULL
    /\ userStats # NULL
    /\ userStats.total_tests = 1
    /\ userStats.total_questions = 2
    /\ userStats.correct_answers = 2
    /\ userStats.best_score = 2
    /\ userStats.accuracy_percentage = [hundredths |-> 10000]

\* C22 (checked under SpecHistory): when deleteAllTestHistory returns true
\* the user has no test_results row and a user_stats row (created if there
\* was none) whose total_tests, total_questions, correct_answers,
\* accuracy_percentage, average_score and best_score are 0; no step of any
\* other operation removes the user_stats row or lowers one of its totals.
C22_ResetZeroes ==
    [][/\ (ResetWriteStats /\ saveResult' = "true") =>
             /\ testResults' = <<>>
             /\ userStats' # NULL
             /\ userStats'.total_tests = 0
             /\ userStats'.total_questions = 0
             /\ userStats'.correct_answers = 0
             /\ userStats'.accuracy_percentage = [hundredths |-> 0]
             /\ userStats'.average_score = [hundredths |-> 0]
             /\ userStats'.best_score = 0
       /\ (~ResetWriteStats /\ userStats # NULL) =>
             /\ userStats' # NULL
             /\ userStats'.total_tests >= userStats.total_tests
             /\ userStats'.total_questions >= userStats.total_questions
             /\ userStats'.correct_answers >= userStats.correct_answers
             /\ userStats'.best_score >= userStats.best_score]_vars

\* a reset has returned true
C22_Witness ==
    /\ saveResult = "true"
    /\ savePc = "idle"
    /\ testResults = <<>>
    /\ userStats # NULL
    /\ userStats.total_tests = 0
    /\ userStats.best_score = 0

----------------------------------------------------------------------------
(* Claims about two tabs                                                   *)

\* C23 (checked under SpecTabs): the update of user_stats is a read followed
\* by a write of its own: the row written counts one test more than the row
\* read, whatever another tab has written to user_stats in between, so that
\* of two completions that read the same row only one is counted
C23_WriteFromRowRead ==
    [][(WriteStats /\ currentStats # NULL /\ userStats # NULL) =>
          /\ userStats'.total_tests = currentStats.total_tests + 1
          /\ userStats'.total_questions =
                currentStats.total_questions + Len(saveArgs.testState.selectedWords)
          /\ userStats'.correct_answers =
                currentStats.correct_answers + saveArgs.testState.score]_vars

\* two rows were inserted by the two tabs for a user with no test so far,
\* this tab has written the row it computed, and total_tests is 1
C23_LostUpdate ==
    /\ savePc = "cleanup"
    /\ currentStats = zeroStats
    /\ Len(testResults) = 2
    /\ testResults[2].created_at = 2
    /\ userStats # NULL
    /\ userStats.total_tests = 1


\* the session's fields other than those named agree in the two states
SameExcept(old, new, fields) ==
    \A f \in DOMAIN old \ fields : new[f] = old[f]

\* C24 (checked under SpecHookTabs): every write of a tab puts its whole
\* session under the key, replacing what the other tab had put there, and
\* the fields a call does not set are those the tab held before the call,
\* never those the other tab wrote; a write of the other tab changes the
\* item and not the session this tab holds
C24_LastWriterWins ==
    [][/\ InitializeTest => localStorage' = JSONstringify(testState')
       /\ (RecordAnswer /\ testState # NULL) =>
             /\ localStorage' = JSONstringify(testState')
             /\ SameExcept(testState, testState', {"answers", "score"})
             /\ \A i \in 1..Len(testState'.answers) :
                    \/ testState'.answers[i].questionIndex = call'.questionIndex
                    \/ \E k \in 1..Len(testState.answers) :
                          testState.answers[k] = testState'.answers[i]
       /\ (NextQuestion /\ testState' # testState) =>
             /\ localStorage' = JSONstringify(testState')
             /\ SameExcept(testState, testState', {"currentQuestionIndex"})
       /\ ResetTest => localStorage' = <<>>
       /\ (OtherTabWrites \/ OtherTabRemoves) =>
             /\ testState' = testState
             /\ localStorage' = <<>> \/ readStoredValue(localStorage') \in OtherTabStates]_vars

\* the other tab has just written over the session this tab had written:
\* the item is the other tab's session, whole
C24_Witness ==
    /\ call.name = "otherTabWrites"
    /\ testState # NULL
    /\ testState.answers # <<>>
    /\ readStoredValue(localStorage) \in OtherTabStates
    /\ readStoredValue(localStorage) # testState

\* this tab has written again after that: the item is its session, whole
C24_WitnessBack ==
    /\ call.name = "nextQuestion"
    /\ testState # NULL
    /\ testState # prevState
    /\ testState \notin OtherTabStates
    /\ localStorage = JSONstringify(testState)

----------------------------------------------------------------------------
(* Claims about the test page                                              *)

\* C25 (checked under SpecTest): when the fetch of the catalog fails and no
\* session is in the store, no session is made or stored, the page stops
\* loading and renders the error screen; the fetch is made once per mount,
\* so none follows the failed one
C25_FetchFailure ==
    [][/\ (LoadWordsFail /\ localStorage = <<>>) =>
             /\ testState' = NULL
             /\ localStorage' = <<>>
             /\ ~loading'
             /\ showsTestError'
       /\ (LoadWordsOk \/ LoadWordsFail) => call.name \in {"mount", "reload"}]_vars

\* the error screen after a failed fetch
C25_Witness ==
    /\ call.name = "loadWordsFailed"
    /\ localStorage = <<>>
    /\ showsTestError

\* the recorded answers marked correct
CorrectAnswers(state) == { i \in 1..Len(state.answers) : state.answers[i].correct }

\* C26 (checked under SpecTest): in every state reached through the test
\* page (answering, next, reloading, leaving and coming back) the score is
\* the number of recorded answers marked correct, and at most the number of
\* questions
C26_ScoreCountsCorrectAnswers ==
    testState # NULL =>
        /\ testState.score = Cardinality(CorrectAnswers(testState))
        /\ testState.score <= Len(testState.selectedWords)

\* the session is on its last question and every question has a recorded answer
IsCompleted(state) ==
    /\ state.currentQuestionIndex = Len(state.selectedWords) - 1
    /\ \A q \in 0..(Len(state.selectedWords) - 1) : HasAnswerFor(state, q)

\* C27 (checked under SpecQuiz): saveTestResult is only ever running for a
\* completed session, and every row of test_results holds an answer for each
\* of its questions
C27_OnlyCompletedSaved ==
    /\ saveArgs # NULL => IsCompleted(saveArgs.testState)
    /\ \A r \in 1..Len(testResults) :
          \A q \in 0..(testResults[r].total_questions - 1) :
             \E i \in 1..Len(testResults[r].answers) :
                testResults[r].answers[i].questionIndex = q

\* C28 (checked under SpecTest): the test page goes to the result page only
\* by the button pressed on the last question once it is answered; pressed
\* on an answered question before the last, the button moves to the next
\* question, keeps the page and hides the answer again; the button is not
\* there while the question shown is unanswered
C28_NextOrResults ==
    [][/\ (page = "test" /\ page' = "result") =>
             /\ showAnswer
             /\ testState # NULL
             /\ testState.currentQuestionIndex = Len(testState.selectedWords) - 1
             /\ HasAnswerFor(testState, testState.currentQuestionIndex)
       /\ (HandleNextQuestion
              /\ testState.currentQuestionIndex # Len(testState.selectedWords) - 1) =>
             /\ HasAnswerFor(testState, testState.currentQuestionIndex)
             /\ page' = "test"
             /\ testState'.currentQuestionIndex = testState.currentQuestionIndex + 1
             /\ ~showAnswer'
       /\ (page = "test" /\ ~showAnswer) => ~HandleNextQuestion]_vars

\* the result page reached from the last question
C28_Witness ==
    /\ call.name = "handleNextQuestion"
    /\ page = "result"
    /\ prevState # NULL
    /\ prevState.currentQuestionIndex = Len(prevState.selectedWords) - 1

\* the second question reached from the first
C28_WitnessNext ==
    /\ call.name = "handleNextQuestion"
    /\ page = "test"
    /\ ~showAnswer
    /\ testState # NULL
    /\ testState.currentQuestionIndex = 1

----------------------------------------------------------------------------
(* Claims about the order of the requests of saveTestResult                *)

\* the last row of test_results is the one the running call inserted
OwnRowInserted ==
    /\ testResults # <<>>
    /\ testResults[Len(testResults)] =
          testResultRow(saveArgs, testResults[Len(testResults)].created_at)

\* C29 (checked under SpecSave): within a call of saveTestResult the select
\* on user_stats is made only once the call's row is in test_results, the
\* write to user_stats only after that select, and rows are pruned only
\* after updateUserStats has returned; after a failed insert the call makes
\* no further request
C29_InsertThenStatsThenCleanup ==
    [][/\ (ReadStats \/ ReadStatsError) => OwnRowInserted
       /\ userStats' # userStats => (savePc = "writeStats" /\ OwnRowInserted)
       /\ (savePc' = "writeStats" /\ savePc # "writeStats") => savePc = "readStats"
       /\ (Len(testResults') < Len(testResults) \/ savePc' = "cleanup") =>
             (savePc \in {"readStats", "writeStats", "cleanup"} /\ OwnRowInserted)
       /\ (Cleanup \/ CleanupFail) => savePc = "cleanup"
       /\ (savePc' = "cleanup" /\ savePc # "cleanup") => (WriteStats \/ StatsFail)
       /\ (InsertFail \/ InsertThrows) =>
             (savePc' = "idle" /\ userStats' = userStats /\ testResults' = testResults)]_vars

\* the call is about to prune: its row is the last one and user_stats holds
\* what it computed from the row it read
C29_Witness ==
    /\ savePc = "cleanup"
    /\ OwnRowInserted
    /\ Len(testResults) > RetentionLimit
    /\ userStats = updatedStats(currentStats, saveArgs.testState)

----------------------------------------------------------------------------
(* Claims about what the calls of useTestState leave alone                 *)

\* C30 (checked under SpecHook): from one initializeTest to the next, the
\* words of the session, their order and startTime stay as they are,
\* whatever is called and however often the page is reloaded; recordAnswer
\* leaves currentQuestionIndex as it is, and nextQuestion leaves score and
\* answers as they are
C30_FrameOfSession ==
    [][/\ (testState # NULL /\ testState' # NULL /\ ~InitializeTest) =>
             /\ testState'.selectedWords = testState.selectedWords
             /\ testState'.startTime = testState.startTime
       /\ (RecordAnswer /\ testState # NULL) =>
             /\ testState' # NULL
             /\ testState'.currentQuestionIndex = testState.currentQuestionIndex
       /\ (NextQuestion /\ testState # NULL) =>
             /\ testState' # NULL
             /\ testState'.score = testState.score
             /\ testState'.answers = testState.answers]_vars

\* an answer was recorded and the next question reached, later than the
\* session began
C30_Witness ==
    /\ call.name = "nextQuestion"
    /\ testState # NULL
    /\ testState.currentQuestionIndex = 1
    /\ testState.answers # <<>>
    /\ testState.score = 1
    /\ Len(testState.selectedWords) = 2
    /\ now > testState.startTime

----------------------------------------------------------------------------
(* Claims about the position in the quiz                                   *)

\* C31 (checked under SpecHook): a session that has words is always on one
\* of them (0 <= currentQuestionIndex <= length - 1), and from one
\* initializeTest or resetTest to the next currentQuestionIndex stays or
\* goes up by one, never down
C31_IndexInRange ==
    [][/\ (testState' # NULL /\ testState'.selectedWords # <<>>) =>
             /\ 0 <= testState'.currentQuestionIndex
             /\ testState'.currentQuestionIndex <= Len(testState'.selectedWords) - 1
       /\ (testState # NULL /\ testState' # NULL /\ ~InitializeTest) =>
             \/ testState'.currentQuestionIndex = testState.currentQuestionIndex
             \/ testState'.currentQuestionIndex = testState.currentQuestionIndex + 1]_vars

\* nextQuestion was called on the last of two words and left the index there
C31_Witness ==
    /\ call.name = "nextQuestion"
    /\ prevState # NULL
    /\ testState # NULL
    /\ Len(testState.selectedWords) = 2
    /\ prevState.currentQuestionIndex = 1
    /\ testState.currentQuestionIndex = 1

\* C32 (checked under SpecTest): in every state reached through the test
\* page each question before the current one has a recorded answer and no
\* answer is recorded for a question after the current one, also when the
\* page was reloaded between answering and pressing the button
C32_AnsweredUpToCurrent ==
    testState # NULL =>
        /\ \A q \in 0..(testState.currentQuestionIndex - 1) : HasAnswerFor(testState, q)
        /\ \A i \in 1..Len(testState.answers) :
              testState.answers[i].questionIndex <= testState.currentQuestionIndex

\* the page was reloaded on the second question after it was answered
C32_Witness ==
    /\ call.name = "reload"
    /\ page = "test"
    /\ ~showAnswer
    /\ testState # NULL
    /\ testState.currentQuestionIndex = 1
    /\ HasAnswerFor(testState, 1)

----------------------------------------------------------------------------
(* Claims about short quizzes                                              *)

\* TestContent renders the question: it reads currentWord.word
rendersQuestion == page = "test" /\ ~loading /\ testState # NULL

\* ResultContent renders the score: it divides by selectedWords.length
rendersResult == page = "result" /\ testState # NULL

\* C34 (checked under SpecShort): whatever the number of words of the
\* session, the test page has a current word whenever it renders a question,
\* the result page divides by a number of questions that is not zero, and
\* the accuracy and average written to user_stats are numbers
C34_ShortQuizTolerated ==
    /\ rendersQuestion => currentWord(testState) # NoWord
    /\ rendersResult => Len(testState.selectedWords) # 0
    /\ userStats # NULL =>
          (userStats.accuracy_percentage # NULL /\ userStats.average_score # NULL)

----------------------------------------------------------------------------
(* Claims about what is saved                                              *)

\* C35 (checked under SpecQuizLinks): the row inserted for a session holds
\* the difficulty tag its words were selected with
C35_SavedDifficulty ==
    [][InsertOk => testResults'[Len(testResults')].difficulty = difficulty]_vars

\* C36 (checked under SpecTimed): startTime is the time at which loadWords
\* initialized the session and stays so through answers, moves and reloads;
\* a save takes the time of its call as endTime and the session's startTime,
\* and the row inserted holds (endTime - startTime) / 1000 rounded to the
\* nearest integer (halves up), in seconds
C36_TimeTaken ==
    [][/\ (LoadWordsOk /\ testState = NULL) => testState'.startTime = now
       /\ (testState # NULL /\ testState' # NULL) =>
             testState'.startTime = testState.startTime
       /\ (RunSaveEffect /\ ~saving /\ saving') =>
             /\ saveArgs'.endTime = now
             /\ saveArgs'.testState.startTime = testState.startTime
       /\ InsertOk =>
             LET row == testResults'[Len(testResults')]
                 elapsed == saveArgs.endTime - saveArgs.testState.startTime
             IN  /\ 1000 * row.time_taken - 500 <= elapsed
                 /\ elapsed < 1000 * row.time_taken + 500]_vars

\* a quiz begun at 0 and saved half a second later: one second is stored
C36_Witness ==
    /\ testResults # <<>>
    /\ testResults[1].time_taken = 1
    /\ testState # NULL
    /\ testState.startTime = 0
    /\ page = "result"

----------------------------------------------------------------------------
(* Claims about shuffleArray                                               *)

\* C37 (checked under SpecShuffle): whatever position in 0..i is drawn at
\* each step i, shuffleArray returns an array of the length of its input
\* that holds every element as often as the input does, and the input is
\* as it was
C37_ShuffleIsPermutation ==
    [][ShuffleArray => (IsPermutation(selected', pool) /\ pool' = pool)]_vars

\* three words, one of them twice, returned in another order
C37_Witness ==
    /\ op = "shuffleArray"
    /\ Len(pool) = 3
    /\ pool[1] = pool[2]
    /\ pool[3] # pool[1]
    /\ selected # pool


-----------------------------------------------------------------------------
(* Saving without a user or without a session *)

\* the hook used on its own (page = "none") or under the result page, by a
\* visitor who may be signed out, with or without a stored session
InitGuard ==
    /\ SelIdle
    /\ SaveIdle
    /\ \E stored \in {NULL, AnsweredSession(Catalog, 2)} :
          /\ testState = stored
          /\ prevState = stored
          /\ localStorage = IF stored = NULL THEN <<>> ELSE JSONstringify(stored)
    /\ now = 0
    /\ call = NoCall
    /\ page \in {"none", "result"}
    /\ urlDifficulty = "all"
    /\ loading = FALSE
    /\ words = <<>>
    /\ showAnswer = FALSE
    /\ user \in Users
    /\ saving = FALSE
    /\ effectPending = (page = "result")

\* a call of saveTestResult with or without a session
SaveTestResultAny ==
    \E session \in SaveSessions \cup {NULL}, prunes \in BOOLEAN :
        SaveTestResultOf(session, prunes)

NextGuard ==
    \/ SaveTestResultAny
    \/ RunSaveEffect
    \/ InsertOk
    \/ ReadStats
    \/ WriteStats
    \/ Cleanup
    \/ Tick

SpecGuard == InitGuard /\ [][NextGuard]_vars

\* C38: while no user is signed in no request is in flight and the tables
\* stay as they are; a call of saveTestResult without a user or without a
\* session returns null with no insert, statistics update or pruning; a save
\* starts only for a user and a session; and the result page that finds no
\* session goes to the home page and starts no save.
C38_NoSaveWithoutUserOrSession ==
    [][/\ user = "none" =>
            (savePc' = "idle" /\ testResults' = testResults /\ userStats' = userStats)
       /\ (SaveTestResultAny /\ saveResult' = "null") =>
            /\ savePc' = "idle"
            /\ testResults' = testResults
            /\ userStats' = userStats
       /\ (savePc = "idle" /\ savePc' = "insert") =>
            (saveArgs'.user # "none" /\ saveArgs'.testState # NULL)
       /\ (RunSaveEffect /\ testState = NULL) =>
            /\ page' = "home"
            /\ savePc' = "idle"
            /\ testResults' = testResults
            /\ userStats' = userStats]_vars

C38_Witness ==
    /\ user = "none"
    /\ page = "none"
    /\ saveResult = "null"
    /\ testResults = <<>>
    /\ userStats = NULL

C38_WitnessRedirect ==
    /\ page = "home"
    /\ call.name = "saveEffect"
    /\ testState = NULL
    /\ savePc = "idle"
    /\ testResults = <<>>

-----------------------------------------------------------------------------
(* Claims about a reset that fails *)

\* C39 (checked under SpecHistory): when the delete of the test_results rows
\* fails, deleteAllTestHistory returns false and the user_stats row is as it
\* was; the statistics are only read and written once the rows are gone; and
\* the call returns true only from the write of the statistics, leaving no
\* test_results row and a user_stats row of zeros.
C39_ResetFailure ==
    [][/\ DeleteRowsFail => (saveResult' = "false" /\ userStats' = userStats)
       /\ (savePc = "resetDelete" /\ savePc' = "resetRead") => testResults' = <<>>
       /\ savePc \in {"resetRead", "resetWrite"} => testResults = <<>>
       /\ (saveResult # "true" /\ saveResult' = "true") =>
             /\ savePc = "resetWrite"
             /\ testResults' = <<>>
             /\ userStats' = zeroStats]_vars

\* a reset whose delete failed: false, the rows and the statistics still there
C39_Witness ==
    /\ saveResult = "false"
    /\ savePc = "idle"
    /\ testResults # <<>>
    /\ userStats # NULL
    /\ userStats.total_tests > 0

-----------------------------------------------------------------------------
(* The dashboard.  DashboardContent keeps the rows it fetched in            *)
(* recentTests and the points of its progress chart in progressData; the    *)
(* model holds them in pool and selected, and the user_stats row fetched    *)
(* (stats) in currentStats.                                                 *)

MaxStored == 22       \* most rows of test_results a dashboard is loaded over
RecentLimit == 20     \* .limit(20)
ProgressLength == 10  \* .slice(-10)
TicksPerDay == 4      \* values of created_at that fall on one day

recentTests == pool

progressData == selected

\* new Date(created_at).toLocaleDateString(): the day, without the time
toLocaleDateString(createdAt) == [day |-> createdAt \div TicksPerDay]

\* the rows of the user .order('created_at', { ascending: false }).limit(20):
\* newest first
recentFirst(rows) ==
    [i \in 1..Min(Len(rows), RecentLimit) |-> rows[Len(rows) - i + 1]]

\* s.slice(-k)
sliceLast(s, k) ==
    IF Len(s) > k THEN SubSeq(s, Len(s) - k + 1, Len(s)) ELSE s

\* s.reverse()
reverse(s) == [i \in 1..Len(s) |-> s[Len(s) - i + 1]]

\* the point of the chart made of one row
progressPoint(test) ==
    [date |-> toLocaleDateString(test.created_at),
     score |-> test.score,
     accuracy |-> IF test.total_questions = 0
                  THEN NULL
                  ELSE mathRound(100 * test.score, test.total_questions)]

\* testsData.slice(-10).map(...).reverse()
chartOf(testsData) ==
    LET last == sliceLast(testsData, ProgressLength)
    IN  reverse([i \in 1..Len(last) |-> progressPoint(last[i])])

\* n rows of one user, oldest first, created one tick apart, whose scores
\* go round 0..Len(Catalog) from shift on
StoredTests(n, shift) ==
    [i \in 1..n |->
        testResultRow([user |-> "u1",
                       testState |-> AnsweredSession(Catalog, (i + shift) % (Len(Catalog) + 1)),
                       difficulty |-> "all", endTime |-> 0], i)]

InitDashboard ==
    /\ HookIdle
    /\ pool = <<>>
    /\ count = 0
    /\ difficulty = "all"
    /\ op = "none"
    /\ selected = <<>>
    /\ target = NoWord
    /\ options = <<>>
    /\ page = "dashboard"
    /\ urlDifficulty = "all"
    /\ loading = TRUE
    /\ words = <<>>
    /\ showAnswer = FALSE
    /\ user = "u1"
    /\ saving = FALSE
    /\ effectPending = FALSE
    /\ savePc = "idle"
    /\ saveArgs = NULL
    /\ currentStats = NULL
    /\ \E n \in 0..MaxStored, shift \in 0..Len(Catalog) : testResults = StoredTests(n, shift)
    /\ userStats \in {NULL, zeroStats}
    /\ saveResult = "none"

\* DashboardContent: loadUserData, both selects answering
LoadUserData ==
    /\ page = "dashboard"
    /\ LET testsData == recentFirst(testResults)
       IN  /\ currentStats' = userStats
           /\ pool' = testsData
           /\ IF Len(testsData) > 0
              THEN selected' = chartOf(testsData)
              ELSE UNCHANGED selected
    /\ loading' = FALSE
    /\ op' = "loadUserData"
    /\ UNCHANGED <<count, difficulty, target, options, hookVars,
                   page, urlDifficulty, words, showAnswer, user, saving, effectPending,
                   savePc, saveArgs, testResults, userStats, saveResult>>

NextDashboard == LoadUserData

SpecDashboard == InitDashboard /\ [][NextDashboard]_vars

\* the points of the newest k rows, oldest of them first
newestPoints(rows, k) ==
    LET m == Min(Len(rows), k)
    IN  [i \in 1..m |-> progressPoint(rows[Len(rows) - m + i])]

\* C40: once the dashboard has loaded over a history of up to 20 stored
\* results, the progress data are the points of the user's 10 most recent
\* tests (of all of them when there are fewer than 10), oldest first.
C40_ProgressIsLastTen ==
    (op = "loadUserData" /\ Len(testResults) <= RecentLimit) =>
        progressData = newestPoints(testResults, ProgressLength)

\* what holds instead: the progress data are those of the ten most recent
\* tests as long as no more than ten are stored; beyond that they are the ten
\* oldest of the twenty rows fetched
C40_OldestOfFetched ==
    op = "loadUserData" =>
        LET n == Len(testResults)
            fetched == SubSeq(testResults, n - Min(n, RecentLimit) + 1, n)
        IN  progressData = [i \in 1..Min(Len(fetched), ProgressLength) |->
                               progressPoint(fetched[i])]

C40_ElevenStored ==
    /\ op = "loadUserData"
    /\ Len(testResults) = ProgressLength + 1
    /\ progressData # newestPoints(testResults, ProgressLength)
====
